---- MODULE Spec2Model ----
(***************************************************************************)
(* A model of the tup backend of mozbuild                                  *)
(* (python/mozbuild/mozbuild/backend/tup.py) together with the part of     *)
(* the compilation-database backend                                        *)
(* (python/mozbuild/mozbuild/compilation/database.py) that produces the    *)
(* command records the tup backend reads.                                  *)
(*                                                                         *)
(* Text is modelled structurally.  A path or command word is a record      *)
(* [dir, stem, ext]: dir is the directory part ("" for a bare name), stem  *)
(* the base name without extensions and ext the sequence of extensions,    *)
(* so that basename, splitext, endswith and "%s.pp" are computed on the    *)
(* structure the way the string functions compute them on the text.        *)
(***************************************************************************)
EXTENDS Integers, Sequences, FiniteSets, TLC

VARIABLES
    pc,                \* position of the driver: "walk", "drain", "rules", "done", "error"
    run,               \* 1: first run of the backend, 2: the re-run on the same input
    universe,          \* the build objects the frontend may deliver in this run
    walked,            \* the build objects delivered so far in run 1, in order
    pos,               \* number of build objects consumed in the current run
    dbfile,            \* content of compile_commands.json
    env,               \* self.environment and what CommonBackend hands to the
                       \* handlers: [is_artifact_build, ipdl]
    commands_db,       \* self._commands_db
    backend_files,     \* self._backend_files: objdir -> BackendTupfile
    manifest_entries,  \* self._manifest_entries: manifest path -> set of lines
    missing_commands,  \* self._missing_commands: key -> count
    todo,              \* consume_finished: objdirs still to drain, in sorted order
    dq,                \* consume_finished: index of the next delayed object of Head(todo)
    disk,              \* persistent storage: file name -> content
    changed            \* files the writer rewrote in the current run

vars == <<pc, run, universe, walked, pos, dbfile, env, commands_db, backend_files,
          manifest_entries, missing_commands, todo, dq, disk, changed>>

-----------------------------------------------------------------------------
(* Bounds of the model *)

\* number of build objects the frontend delivers in one run
MaxObjs == 3

-----------------------------------------------------------------------------
(* Text *)

None == [none |-> TRUE]

P(dir, stem, ext) == [dir |-> dir, stem |-> stem, ext |-> ext]

\* a bare word of a command line or of a rule
Tok(s) == P("", s, <<>>)

\* ' '.join(seq) used as ONE argument of a command
Joined(seq) == [joined |-> seq]

RECURSIVE Range(_)
Range(s) == IF s = <<>> THEN {} ELSE {Head(s)} \cup Range(Tail(s))

Last(s) == s[Len(s)]
Front(s) == SubSeq(s, 1, Len(s) - 1)

\* mozpath.basename(p)
basename(p) == [p EXCEPT !.dir = ""]

\* mozpath.splitext(p)[0]
splitext0(p) == IF p.ext = <<>> THEN p ELSE [p EXCEPT !.ext = Front(p.ext)]

\* s.endswith(e) for an extension e
endswith(p, e) == p.ext # <<>> /\ Last(p.ext) = e

\* '%s<e>' % p
addext(p, e) == [p EXCEPT !.ext = Append(p.ext, e)]

\* mozpath.join(d, p): an absolute p wins
join(d, p) == IF p.dir = "" THEN [p EXCEPT !.dir = d] ELSE p

\* The strings that occur as sort keys, in the order Python's sorted() gives
\* them (code-point order of the text).
Lex ==
    << "", "$(MOZ_OBJ_ROOT)", "$(MOZ_OBJ_ROOT)/dist/bin", ".S", ".a", ".asm", ".c",
       ".cpp", ".css", ".desc", ".h", ".in", ".ini", ".o", ".pp", ".so", "/obj/a", "/obj/b",
       "/obj/c", "/obj/d", "/obj/dist", "/obj/dist/bin", "/obj/dist/bin/chrome",
       "/obj/dist/include", "/obj/dist/nowhere", "/obj/ipc/ipdl", "/src/p", "/src/q", "E", "PFoo", "U0", "U1", "app", "application", "content m",
       "g", "interfaces m.xpt", "libA", "libB", "libR", "libS", "libT", "locale m",
       "m", "manifest chrome/m.manifest", "manifest components/interfaces.manifest",
       "resource app", "x", "y", "z" >>

Rank(s) == CHOOSE i \in 1..Len(Lex) : Lex[i] = s

RECURSIVE SeqLess(_, _)
SeqLess(s, t) ==
    IF s = <<>> THEN t # <<>>
    ELSE IF t = <<>> THEN FALSE
    ELSE IF Head(s) = Head(t) THEN SeqLess(Tail(s), Tail(t))
    ELSE Rank(Head(s)) < Rank(Head(t))

\* p < q as Python compares the texts of two paths of the model
PathLess(p, q) ==
    IF p.dir # q.dir THEN Rank(p.dir) < Rank(q.dir)
    ELSE IF p.stem # q.stem THEN Rank(p.stem) < Rank(q.stem)
    ELSE SeqLess(p.ext, q.ext)

\* sorted(S) for a set of strings
RECURSIVE SortedStrings(_)
SortedStrings(S) ==
    IF S = {} THEN <<>>
    ELSE LET m == CHOOSE s \in S : \A t \in S \ {s} : Rank(s) < Rank(t)
         IN <<m>> \o SortedStrings(S \ {m})

\* a list with its duplicates kept
keep_all(seq) == seq

\* list(OrderedDict.fromkeys(seq)): first occurrences, in order
RECURSIVE uniq(_)
uniq(seq) ==
    IF seq = <<>> THEN <<>>
    ELSE LET r == uniq(Front(seq))
         IN IF Last(seq) \in Range(r) THEN r ELSE Append(r, Last(seq))

Get(f, k, default) == IF k \in DOMAIN f THEN f[k] ELSE default

-----------------------------------------------------------------------------
(* Directories *)

topobjdir == "/obj"
topsrcdir == "/src"

RelDirs ==
    { "a", "b", "c", "d", "dist", "dist/bin", "dist/bin/chrome", "dist/include",
      "dist/nowhere", "ipc/ipdl" }

\* mozpath.join(topobjdir, reldir)
AbsObj(reldir) == topobjdir \o "/" \o reldir

\* mozpath.relpath(objdir, topobjdir)
RelObj(objdir) == CHOOSE r \in RelDirs : AbsObj(r) = objdir

-----------------------------------------------------------------------------
(* class BackendTupfile *)

TextLine(s) == [kind |-> "text", s |-> s]
IncludeRulesLine == [kind |-> "include_rules"]
ExportLine(var) == [kind |-> "export", var |-> var]

\* The group dependencies of TupOnly._init
installed_files == P("$(MOZ_OBJ_ROOT)", "<installed-files>", <<>>)
includes_group == P("$(MOZ_OBJ_ROOT)", "<includes>", <<>>)
objects_group == P("$(MOZ_OBJ_ROOT)", "<objects>", <<>>)

Groups == {installed_files, includes_group, objects_group}

\* a rule file opened on top of what an earlier run left in it
BackendTupfileReopen(srcdir, objdir) ==
    [ srcdir |-> srcdir,
      objdir |-> objdir,
      relobjdir |-> RelObj(objdir),
      rules_included |-> FALSE,
      shell_exported |-> FALSE,
      defines |-> <<>>,
      host_defines |-> <<>>,
      delayed_generated_files |-> <<>>,
      sources |-> <<>>,
      fh |-> Get(disk, objdir \o "/Tupfile", <<>>)
             \o << TextLine("# THIS FILE WAS AUTOMATICALLY GENERATED. DO NOT EDIT."),
                   TextLine("") >> ]

\* BackendTupfile.__init__
BackendTupfileInit(srcdir, objdir) ==
    [ srcdir |-> srcdir,
      objdir |-> objdir,
      relobjdir |-> RelObj(objdir),
      rules_included |-> FALSE,
      shell_exported |-> FALSE,
      defines |-> <<>>,
      host_defines |-> <<>>,
      delayed_generated_files |-> <<>>,
      sources |-> <<>>,
      fh |-> << TextLine("# THIS FILE WAS AUTOMATICALLY GENERATED. DO NOT EDIT."),
                TextLine("") >> ]

\* BackendTupfile.write
write(bf, line) == [bf EXCEPT !.fh = Append(@, line)]

\* BackendTupfile.include_rules
include_rules(bf) ==
    IF ~bf.rules_included
    THEN [write(bf, IncludeRulesLine) EXCEPT !.rules_included = TRUE]
    ELSE bf

\* an output group that looks for .h outputs only
RuleGroupHeadersOnly(outputs, output_group) ==
    IF \E i \in 1..Len(outputs) : endswith(outputs[i], ".h")
    THEN includes_group
    ELSE output_group

\* an output group that gives way to the group the caller passed
RuleGroupExplicit(outputs, output_group) ==
    IF output_group # None THEN output_group
    ELSE IF \E i \in 1..Len(outputs) : endswith(outputs[i], ".h") \/ endswith(outputs[i], ".cfg")
    THEN includes_group
    ELSE None

\* The output group BackendTupfile.rule attaches to a rule
RuleGroup(outputs, output_group) ==
    IF \E i \in 1..Len(outputs) : endswith(outputs[i], ".h") \/ endswith(outputs[i], ".cfg")
    THEN includes_group
    ELSE output_group

\* BackendTupfile.rule
rule(bf, cmd, inputs, extra_inputs, outputs, display, extra_outputs, output_group, check_unchanged) ==
    LET bf1 == include_rules(bf)
        flags == IF check_unchanged THEN "o" ELSE ""
        caret_text == IF display # "" THEN flags \o " " \o display ELSE flags
        group == RuleGroup(outputs, output_group)
        outs == IF group # None THEN Append(outputs, group) ELSE outputs
    IN write(bf1, [ kind |-> "rule",
                    inputs |-> inputs,
                    extra_inputs |-> extra_inputs,
                    display |-> caret_text,
                    cmd |-> cmd,
                    outputs |-> outs,
                    extra_outputs |-> extra_outputs ])

\* BackendTupfile.symlink_rule
symlink_rule(bf, source, output, output_group) ==
    LET outputs == IF output # None THEN <<output>> ELSE <<basename(source)>>
    IN rule(bf, <<Tok("!tup_ln")>>, <<source>>, <<>>, outputs, "", <<>>, output_group,
            FALSE)

ShellVars == <<"SHELL", "MOZILLABUILD", "COMSPEC">>

\* an export that does not remember that it was done
export_shell_always(bf) ==
    [bf EXCEPT !.fh = @ \o [i \in 1..Len(ShellVars) |-> ExportLine(ShellVars[i])]]

\* BackendTupfile.export_shell
export_shell(bf) ==
    IF ~bf.shell_exported
    THEN [bf EXCEPT !.fh = @ \o [i \in 1..Len(ShellVars) |-> ExportLine(ShellVars[i])],
                    !.shell_exported = TRUE]
    ELSE bf

-----------------------------------------------------------------------------
(* class TupOnly: rule files *)

\* TupOnly._get_backend_file; an absent (or empty) objdir or srcdir is ""
get_backend_file(bfs, relativedir, objdir, srcdir) ==
    LET od == IF objdir # "" THEN objdir ELSE AbsObj(relativedir)
        sd == IF srcdir # "" THEN srcdir ELSE topsrcdir \o "/" \o relativedir
    IN IF od \notin DOMAIN bfs
       THEN bfs @@ (od :> BackendTupfileInit(sd, od))
       ELSE bfs

\* TupOnly._get_backend_file_for
get_backend_file_for(bfs, obj) ==
    get_backend_file(bfs, RelObj(obj.objdir), obj.objdir, obj.srcdir)

\* TupOnly._source_closure
source_closure(bfs, backend_file) ==
    get_backend_file(bfs, backend_file.relobjdir, "", "")
        [AbsObj(backend_file.relobjdir)].sources

\* mozbuild.shellutil.quote on the words of the model: a word with a shell
\* metacharacter is put in single quotes, any other word is left as it is
NeedsQuote == {"<OBJS>", "-DNAME=a b", "$(CXX)", "$(DEFINES)"}
shell_quote(w) ==
    IF w.dir = "" /\ w.ext = <<>> /\ w.stem \in NeedsQuote
    THEN Tok("'" \o w.stem \o "'")
    ELSE w

\* TupOnly._py_action
py_action(action) ==
    << Tok("$(PYTHON)"), Tok("-m"), Tok("mozbuild.action." \o action) >>

-----------------------------------------------------------------------------
(* The classes of frontend.data the backend tests with isinstance, with    *)
(* their base classes as the import block of tup.py lays them out.         *)

Bases ==
    [ Sources |-> {"BaseSources", "ContextDerived"},
      GeneratedSources |-> {"BaseSources", "ContextDerived"},
      HostSources |-> {"BaseSources", "ContextDerived"},
      UnifiedSources |-> {"BaseSources", "ContextDerived"},
      Program |-> {"BaseProgram", "Linkable", "ContextDerived"},
      SimpleProgram |-> {"BaseProgram", "Linkable", "ContextDerived"},
      HostProgram |-> {"BaseProgram", "Linkable", "ContextDerived"},
      HostSimpleProgram |-> {"BaseProgram", "Linkable", "ContextDerived"},
      StaticLibrary |-> {"Library", "Linkable", "ContextDerived"},
      SharedLibrary |-> {"Library", "Linkable", "ContextDerived"},
      RustLibrary |-> {"StaticLibrary", "Library", "Linkable", "ContextDerived"},
      ChromeManifestEntry |-> {"ContextDerived"},
      Defines |-> {"ContextDerived"},
      HostDefines |-> {"ContextDerived"},
      FinalTargetFiles |-> {"ContextDerived"},
      ObjdirFiles |-> {"FinalTargetFiles", "ContextDerived"},
      FinalTargetPreprocessedFiles |-> {"ContextDerived"},
      GeneratedFile |-> {"ContextDerived"},
      JARManifest |-> {"ContextDerived"} ]

isinstance(obj, class) == obj.cls = class \/ class \in Bases[obj.cls]

-----------------------------------------------------------------------------
(* The command database: TupOnly._init *)

\* a JSON record of compile_commands.json; command is command.split()
DbRecord(file, command, directory) ==
    [file |-> file, command |-> command, directory |-> directory]

\* [p if p != "/dev/null" else "%o" for p in command.split()]
LoadCommand(command) ==
    [i \in 1..Len(command) |->
        IF command[i] = Tok("/dev/null") THEN Tok("%o") ELSE command[i]]

\* self._commands_db.get(key, None)
NoCmd == [hit |-> FALSE, cmd |-> <<>>]
db_get(db, key) == IF key \in DOMAIN db THEN [hit |-> TRUE, cmd |-> db[key]] ELSE NoCmd

-----------------------------------------------------------------------------
(* Compile rules: TupOnly._process_sources, TupOnly._write_sources *)

\* a label map that takes every suffix for C++
SuffixLabelCpp(canonical_suffix) == "CPP"

SuffixLabel(canonical_suffix) ==
    CASE canonical_suffix = ".s" -> "AS"
      [] canonical_suffix = ".c" -> "C"
      [] canonical_suffix = ".m" -> "CM"
      [] canonical_suffix = ".mm" -> "CMM"
      [] canonical_suffix = ".cpp" -> "CPP"
      [] canonical_suffix = ".rs" -> "RS"
      [] canonical_suffix = ".S" -> "S"
      [] OTHER -> "Compiling"

\* "%s.o" % mozpath.basename(mozpath.splitext(f)[0])
ObjectName(f) == addext(basename(splitext0(f)), ".o")

\* a lookup that prefers the entry of the first constituent
lookup_constituent_first(db, f, objdir, unified_inputs) ==
    LET cmd == IF unified_inputs # <<>> THEN db_get(db, <<unified_inputs[1], objdir>>)
               ELSE NoCmd
    IN IF ~cmd.hit THEN db_get(db, <<f, objdir>>) ELSE cmd

\* the two lookups of _write_sources
lookup_command(db, f, objdir, unified_inputs) ==
    LET cmd == db_get(db, <<f, objdir>>)
    IN IF unified_inputs # <<>> /\ ~cmd.hit
       THEN db_get(db, <<unified_inputs[1], objdir>>)
       ELSE cmd

\* "cmd is None": no entry
cmd_is_none(cmd) == ~cmd.hit

\* "not cmd": no entry, or an entry with an empty command
not_cmd(cmd) == ~cmd.hit \/ cmd.cmd = <<>>

TouchCmd == <<Tok("touch"), Tok("%o")>>

Incr(counts, key) == IF key \in DOMAIN counts
                     THEN [counts EXCEPT ![key] = @ + 1]
                     ELSE counts @@ (key :> 1)

\* a counting that leaves out the object kind
count_missing_suffix(mc, canonical_suffix, clsname) == Incr(mc, canonical_suffix)

\* the counting of a missing command in _write_sources
count_missing(mc, canonical_suffix, clsname) ==
    Incr(Incr(mc, canonical_suffix), clsname)

\* The state the handlers work on: st.bfs is self._backend_files, st.mc
\* self._missing_commands, st.me self._manifest_entries, st.db
\* self._commands_db, st.raised whether an exception was raised.

\* TupOnly._write_sources; od is the objdir of backend_file
write_sources(st, od, clsname, f, canonical_suffix, unified_inputs) ==
    LET bf0 == st.bfs[od]
        label == SuffixLabel(canonical_suffix) \o " %b"
        bf1 == [bf0 EXCEPT !.sources = Append(@, ObjectName(f))]
        found == lookup_command(st.db, f, bf0.objdir, unified_inputs)
        missing == not_cmd(found)
        cmd == IF missing THEN TouchCmd ELSE found.cmd
        bf2 == rule(bf1, cmd, <<f>>,
                    <<includes_group, installed_files>> \o unified_inputs,
                    <<P("", "%B", <<".o">>)>>, label, <<>>, objects_group, TRUE)
    IN [st EXCEPT !.bfs = [@ EXCEPT ![od] = bf2],
                  !.mc = IF missing THEN count_missing(@, canonical_suffix, clsname)
                         ELSE @]

\* mapping.get(f, []) for the list of pairs obj.unified_source_mapping
MappingGet(mapping, f) ==
    IF \E i \in 1..Len(mapping) : mapping[i][1] = f
    THEN mapping[CHOOSE i \in 1..Len(mapping) :
                    /\ mapping[i][1] = f
                    /\ \A j \in (i+1)..Len(mapping) : mapping[j][1] # f][2]
    ELSE <<>>

RECURSIVE write_sources_each(_, _, _, _, _)
write_sources_each(st, od, obj, files, mapping) ==
    IF files = <<>> THEN st
    ELSE write_sources_each(
            write_sources(st, od, obj.cls, Head(files), obj.canonical_suffix,
                          MappingGet(mapping, Head(files))),
            od, obj, Tail(files), mapping)

\* the order in which _process_sources visits the files
sorted_files(files) == SortSeq(files, PathLess)

\* TupOnly._process_sources
process_sources(st, obj, od) ==
    LET unified == isinstance(obj, "UnifiedSources")
        mapping == IF unified /\ obj.have_unified_mapping
                   THEN obj.unified_source_mapping ELSE <<>>
        files == IF unified THEN uniq([i \in 1..Len(mapping) |-> mapping[i][1]])
                 ELSE obj.files
    IN write_sources_each(st, od, obj, sorted_files(files), mapping)

-----------------------------------------------------------------------------
(* Link rules: TupOnly._process_program *)

\* '%s/%s' % (l.objdir, l.import_name)
LibPath(l) == join(l.objdir, l.import_name)

\* The state of the two lists of _process_program
EmptyPlan == [libs |-> <<>>, system_libs |-> <<>>]

\* write_shared_and_system_libs(lib), the closure inside _process_program;
\* table maps the name of a linkable to the object
RECURSIVE write_shared_and_system_libs(_, _, _)
RECURSIVE wssl_each(_, _, _)

\* a flattening that lists every static library it descends into as well
RECURSIVE wssl_each_listing(_, _, _)
wssl_each_listing(table, plan, ls) ==
    IF ls = <<>> THEN plan
    ELSE LET l == table[Head(ls)]
             plan0 == [plan EXCEPT !.libs = Append(@, LibPath(l))]
             plan1 == IF isinstance(l, "StaticLibrary") \/ isinstance(l, "RustLibrary")
                      THEN write_shared_and_system_libs(table, plan0, l)
                      ELSE plan0
         IN wssl_each_listing(table, plan1, Tail(ls))

wssl_each(table, plan, ls) ==
    IF ls = <<>> THEN plan
    ELSE LET l == table[Head(ls)]
             plan1 == IF isinstance(l, "StaticLibrary") \/ isinstance(l, "RustLibrary")
                      THEN write_shared_and_system_libs(table, plan, l)
                      ELSE [plan EXCEPT !.libs = Append(@, LibPath(l))]
         IN wssl_each(table, plan1, Tail(ls))

write_shared_and_system_libs(table, plan, lib) ==
    LET plan1 == wssl_each(table, plan, lib.linked_libraries)
    IN [plan1 EXCEPT !.system_libs = @ \o lib.linked_system_libs]

\* one iteration of "for lib in obj.linked_libraries" of _process_program
link_one(table, plan, obj, lib) ==
    IF isinstance(obj, "Library")
    THEN IF isinstance(lib, "RustLibrary")
         THEN plan
         ELSE IF isinstance(lib, "StaticLibrary")
         THEN LET plan1 == [plan EXCEPT !.libs = Append(@, LibPath(lib))]
              IN IF isinstance(obj, "SharedLibrary")
                 THEN write_shared_and_system_libs(table, plan1, lib)
                 ELSE plan1
         ELSE IF isinstance(lib, "SharedLibrary")
         THEN [plan EXCEPT !.libs = Append(@, LibPath(lib))]
         ELSE plan
    ELSE IF isinstance(obj, "Program") \/ isinstance(obj, "SimpleProgram")
    THEN IF isinstance(lib, "StaticLibrary")
         THEN write_shared_and_system_libs(
                 table, [plan EXCEPT !.libs = Append(@, LibPath(lib))], lib)
         ELSE [plan EXCEPT !.libs = Append(@, LibPath(lib))]
    ELSE plan

RECURSIVE link_each(_, _, _, _)
link_each(table, plan, obj, ls) ==
    IF ls = <<>> THEN plan
    ELSE link_each(table, link_one(table, plan, obj, table[Head(ls)]), obj, Tail(ls))

\* libs and system_libs as _process_program has them before it emits
link_plan(table, obj) ==
    LET plan == link_each(table, EmptyPlan, obj, obj.linked_libraries)
    IN [plan EXCEPT !.system_libs = @ \o obj.linked_system_libs]

ObjsPlaceholder == Tok("'<OBJS>'")

DefaultLinkCmd == <<Tok("ld.gold"), Tok("-o"), Tok("%o"), Tok("")>>

\* [l + ".desc" if l.endswith('.a') else l for l in inputs]
desc_inputs(ins) ==
    [i \in 1..Len(ins) |-> IF endswith(ins[i], ".a") THEN addext(ins[i], ".desc")
                           ELSE ins[i]]

\* a link command that is the touch command when the database has no entry
link_command_touch(db, objdir, name, ins, system_libs) ==
    LET found == db_get(db, <<join(objdir, name), objdir>>)
        cmd0 == Front(found.cmd)
        cmd1 == IF ObjsPlaceholder \notin Range(cmd0) THEN cmd0 \o ins ELSE cmd0
    IN IF ~found.hit THEN TouchCmd
       ELSE [i \in 1..Len(cmd1) |-> IF cmd1[i] = ObjsPlaceholder THEN Joined(ins)
                                    ELSE cmd1[i]]
            \o uniq(system_libs)

\* the command of a Program or SharedLibrary rule; name is obj.program or
\* obj.lib_name
link_command(db, objdir, name, ins, system_libs) ==
    LET found == db_get(db, <<join(objdir, name), objdir>>)
        cmd0 == Front(IF found.hit THEN found.cmd ELSE DefaultLinkCmd)
        cmd1 == IF ObjsPlaceholder \notin Range(cmd0) THEN cmd0 \o ins ELSE cmd0
    IN [i \in 1..Len(cmd1) |-> IF cmd1[i] = ObjsPlaceholder THEN Joined(ins)
                               ELSE cmd1[i]]
       \o uniq(system_libs)

\* the command of a StaticLibrary rule
archive_command(obj, ins) ==
    << Tok("SHELL=/bin/sh"), Tok("$(PYTHON_PATH)"),
       Tok("$(topsrcdir)/config/expandlibs_gen.py"), Tok("-o"),
       addext(obj.lib_name, ".desc") >> \o ins

\* TupOnly._process_program; od is the objdir of backend_file
process_program(st, table, od, obj) ==
    LET bf == st.bfs[od]
        plan == link_plan(table, obj)
        bfs1 == get_backend_file(st.bfs, bf.relobjdir, "", "")
        ins == source_closure(st.bfs, bf) \o uniq(plan.libs)
        bf1 == bfs1[od]
        out ==
            IF isinstance(obj, "Program")
            THEN rule(bf1, link_command(st.db, bf.objdir, obj.program, ins,
                                        plan.system_libs),
                      desc_inputs(ins), <<>>, <<obj.program>>, "LINK %o", <<>>, None,
                      TRUE)
            ELSE IF isinstance(obj, "SharedLibrary")
            THEN rule(bf1, link_command(st.db, bf.objdir, obj.lib_name, ins,
                                        plan.system_libs),
                      desc_inputs(ins), <<>>, <<obj.lib_name>>, "LINK %o", <<>>, None,
                      TRUE)
            ELSE IF isinstance(obj, "StaticLibrary")
            THEN rule(bf1, archive_command(obj, ins),
                      desc_inputs(ins), <<>>, <<addext(obj.lib_name, ".desc")>>,
                      "AR %o", <<>>, None, TRUE)
            ELSE rule(bf1, TouchCmd, <<>>, <<>>,
                      <<obj.lib_name, join(obj.basename, obj.lib_name)>>,
                      "LINK %o", <<>>, None, TRUE)
    IN [st EXCEPT !.bfs = [bfs1 EXCEPT ![od] = out]]

-----------------------------------------------------------------------------
(* Generated files, defines, installs, preprocessing *)

\* the text of a path
RECURSIVE Concat(_)
Concat(ss) == IF ss = <<>> THEN "" ELSE Head(ss) \o Concat(Tail(ss))
PathText(p) == (IF p.dir = "" THEN "" ELSE p.dir \o "/") \o p.stem \o Concat(p.ext)

\* the text of a directory given by its segments
RECURSIVE SegText(_)
SegText(segs) ==
    IF segs = <<>> THEN ""
    ELSE IF Len(segs) = 1 THEN segs[1]
    ELSE segs[1] \o "/" \o SegText(Tail(segs))

skip_directories == {"layout/style/test", "toolkit/library"}

\* TupOnly._process_generated_file; od is the objdir of backend_file
process_generated_file(st, od, obj) ==
    IF obj.script # "" /\ obj.method # "" /\ obj.relobjdir \notin skip_directories
    THEN LET bf1 == export_shell(st.bfs[od])
             full_inputs == obj.inputs
             cmd == py_action("file_generate")
                    \o << Tok(obj.script), Tok(obj.method), obj.outputs[1],
                          addext(obj.outputs[1], ".pp") >>
                    \o full_inputs
                    \o [i \in 1..Len(obj.flags) |-> shell_quote(obj.flags[i])]
             outputs == Append(obj.outputs, addext(obj.outputs[1], ".pp"))
             bf2 == rule(bf1, cmd, full_inputs, <<>>, outputs,
                         "python " \o obj.script \o ":" \o obj.method \o " -> [%o]",
                         <<>>, installed_files, TRUE)
         IN [st EXCEPT !.bfs = [@ EXCEPT ![od] = bf2]]
    ELSE st

\* TupOnly._process_defines
process_defines(st, od, obj, host) ==
    IF obj.defines # <<>>
    THEN IF host
         THEN [st EXCEPT !.bfs = [@ EXCEPT ![od] = [@ EXCEPT !.host_defines = obj.defines]]]
         ELSE [st EXCEPT !.bfs = [@ EXCEPT ![od] = [@ EXCEPT !.defines = obj.defines]]]
    ELSE st

\* TupOnly._preprocess; destdir is "" when absent
preprocess(st, od, input_file, destdir) ==
    LET bf == st.bfs[od]
        marker == IF endswith(input_file, ".css") THEN "%%" ELSE "#"
        cmd == py_action("preprocessor")
               \o [i \in 1..Len(bf.defines) |-> shell_quote(bf.defines[i])]
               \o << Tok("$(ACDEFINES)"), Tok("%f"), Tok("-o"), Tok("%o"),
                     Tok("--marker=" \o marker) >>
        base0 == basename(input_file)
        base_input == IF endswith(base0, ".in") THEN splitext0(base0) ELSE base0
        output == IF destdir # "" THEN join(destdir, base_input) ELSE base_input
        display == "PREPROCESS "
                   \o (IF endswith(input_file, ".in")
                       THEN PathText(basename(input_file)) \o " -> " ELSE "")
                   \o PathText(base_input)
    IN [st EXCEPT !.bfs = [@ EXCEPT ![od] =
            rule(bf, cmd, <<input_file>>, <<>>, <<output>>, display, <<>>, None, TRUE)]]

RECURSIVE preprocess_each(_, _, _, _)
preprocess_each(st, od, files, destdir) ==
    IF files = <<>> THEN st
    ELSE preprocess_each(preprocess(st, od, Head(files).full_path, destdir), od,
                         Tail(files), destdir)

\* TupOnly._process_final_target_pp_files; obj.files.walk() yields one
\* (path, files) pair per destination sub-directory
RECURSIVE process_final_target_pp_files(_, _, _, _)
process_final_target_pp_files(st, obj, od, walk) ==
    IF walk = <<>> THEN st
    ELSE LET path == Head(walk)[1]
             files == Head(walk)[2]
             destdir == SegText(<<topobjdir>> \o obj.install_target \o path)
         IN process_final_target_pp_files(preprocess_each(st, od, files, destdir),
                                          obj, od, Tail(walk))


\* the top-level directories TupOnly._process_final_target_files installs to
InstallRoots ==
    { <<"dist", "bin">>, <<"dist", "xpi-stage">>, <<"_tests">>, <<"dist", "include">>,
      <<"dist", "branding">>, <<"dist", "sdk">> }

IsPrefix(s, t) == Len(s) <= Len(t) /\ SubSeq(t, 1, Len(s)) = s

\* a test that takes every destination for a recognized one
basedir_always(target, roots) == TRUE

\* mozpath.basedir(target, roots) is not None
basedir_found(target, roots) == \E r \in roots : IsPrefix(r, target)

\* the path segments that hold a wildcard
StarSegs == {"*", "*.js", "t*"}

\* a test that looks at the file name only
HasStarLast(segs) == segs # <<>> /\ Last(segs) \in StarSegs

\* '*' in f, for the path segments of f
HasStar(segs) == \E i \in 1..Len(segs) : segs[i] \in StarSegs

\* ''.join(_prefix(f.full_path)): the segments of the path that hold no
\* wildcard, each followed by '/'; given here without the final '/'
prefix_of(segs) == SegText(SelectSeq(segs, LAMBDA p : p \notin StarSegs))

\* mozpath.join(d, sub) of two directories, sub possibly empty
JoinDir(d, sub) == IF sub = "" THEN d ELSE d \o "/" \o sub

\* suffixes of self._compile_env_gen_files
compile_env_gen_exts == {".c", ".cpp", ".h", ".inc", ".py", ".rs"}

\* any(mozpath.match(name, p) for p in self._compile_env_gen_files)
match_compile_env_gen(name) ==
    name.dir = "" /\ name.ext # <<>> /\ Last(name.ext) \in compile_env_gen_exts

\* "for p, _ in finder.find(...)": found holds the paths the finder returns,
\* relative to prefix
RECURSIVE symlink_found(_, _, _, _, _)
symlink_found(bf, prefix, f, found, group) ==
    IF found = <<>> THEN bf
    ELSE LET p == Head(found)
             source == P(JoinDir(prefix, p.dir), p.stem, p.ext)
             output == P(JoinDir(PathText(f.target_basename), p.dir), p.stem, p.ext)
         IN symlink_found(symlink_rule(bf, source, output, group), prefix, f,
                          Tail(found), group)

\* the body of "for f in files" of _process_final_target_files; od is the
\* objdir of the rule file of the destination directory
install_one(st, od, obj, path, f) ==
    IF f.cls # "ObjDirPath"
    THEN IF HasStar(f.segs)
         THEN IF f.topsrc \/ f.cls = "AbsolutePath"
              THEN IF HasStar(Front(f.segs))
                   THEN [st EXCEPT !.raised = TRUE]
                   ELSE st
              ELSE [st EXCEPT !.bfs = [@ EXCEPT ![od] =
                        symlink_found(@, prefix_of(f.segs), f, f.found,
                                      installed_files)]]
         ELSE [st EXCEPT !.bfs = [@ EXCEPT ![od] =
                    symlink_rule(@, f.full_path, f.target_basename, installed_files)]]
    ELSE IF env.is_artifact_build /\ match_compile_env_gen(f.target_basename)
    THEN st
    ELSE IF f.context_relobjdir \notin skip_directories
    THEN LET output == join(SegText(<<"$(MOZ_OBJ_ROOT)">> \o obj.install_target \o path),
                            f.target_basename)
             bfs1 == get_backend_file(st.bfs, f.context_relobjdir, "", "")
             god == AbsObj(f.context_relobjdir)
         IN [st EXCEPT !.bfs = [bfs1 EXCEPT ![god] =
                                  symlink_rule(@, f.full_path, output, None)]]
    ELSE st

RECURSIVE install_each(_, _, _, _, _)
install_each(st, od, obj, path, files) ==
    IF files = <<>> \/ st.raised THEN st
    ELSE install_each(install_one(st, od, obj, path, Head(files)), od, obj, path,
                      Tail(files))

RECURSIVE install_walk(_, _, _)
install_walk(st, obj, walk) ==
    IF walk = <<>> \/ st.raised THEN st
    ELSE LET path == Head(walk)[1]
             reldir == SegText(obj.install_target \o path)
             st1 == [st EXCEPT !.bfs = get_backend_file(@, reldir, "", "")]
         IN install_walk(install_each(st1, AbsObj(reldir), obj, path, Head(walk)[2]),
                         obj, Tail(walk))

\* TupOnly._process_final_target_files
process_final_target_files(st, obj) ==
    IF ~isinstance(obj, "ObjdirFiles") /\ ~basedir_found(obj.install_target, InstallRoots)
    THEN [st EXCEPT !.raised = TRUE]
    ELSE IF obj.install_target # <<>> /\ obj.install_target[1] = "_tests"
    THEN st
    ELSE install_walk(st, obj, obj.files)

-----------------------------------------------------------------------------
(* TupOnly.consume_object *)

EmptyMap == [k \in {} |-> {}]

difficult_directories ==
    { "build/unix/elfhack", "build/unix/elfhack/inject", "build/clang-plugin",
      "build/clang-plugin/tests" }

\* the files make generates before tup runs
skip_files == { P("", "buildid", <<".h">>), P("", "source-repo", <<".h">>) }

\* any(mozpath.match(f, p) for p in skip_files) for an output f
skipped_output(f) ==
    \/ f \in skip_files
    \/ env.is_artifact_build /\ match_compile_env_gen(f)

application_ini_h == P("", "application", <<".ini", ".h">>)

\* a backend that writes the rule of a generated file at once
delay_generated_now(st, od, obj) ==
    IF obj.cls = "GeneratedFile" THEN process_generated_file(st, od, obj)
    ELSE [st EXCEPT !.bfs = [@ EXCEPT ![od] =
            [@ EXCEPT !.delayed_generated_files = Append(@, obj)]]]

\* backend_file.delayed_generated_files.append(obj)
delay(st, od, obj) ==
    [st EXCEPT !.bfs = [@ EXCEPT ![od] =
        [@ EXCEPT !.delayed_generated_files = Append(@, obj)]]]

\* an entry that replaces the entries of its manifest
ReplaceEntry(me, key, line) ==
    [k \in DOMAIN me \cup {key} |-> IF k = key THEN {line} ELSE me[k]]

\* self._manifest_entries[key].add(line)
AddEntry(me, key, line) ==
    IF key \in DOMAIN me THEN [me EXCEPT ![key] = @ \cup {line}]
    ELSE me @@ (key :> {line})

\* the ChromeManifestEntry branch of consume_object
add_manifest_entry(st, obj) ==
    LET target == SegText(obj.install_target)
        top_level == target \o "/chrome.manifest"
        path == target \o "/" \o obj.path
        me1 == IF path # top_level
               THEN AddEntry(st.me, top_level, "manifest " \o obj.path)
               ELSE st.me
    IN [st EXCEPT !.me = AddEntry(me1, path, obj.entry)]

\* CommonBackend.consume_object: the objects the common part consumes itself
common_consumes(obj) == isinstance(obj, "UnifiedSources")

\* TupOnly._process_unified_sources
process_unified_sources(st, obj) ==
    LET st1 == [st EXCEPT !.bfs = get_backend_file_for(@, obj)]
    IN process_sources(st1, obj, obj.objdir)

\* TupOnly.consume_object
consume_object(st, obj) ==
    IF obj.relativedir \in difficult_directories THEN st
    ELSE IF ~isinstance(obj, "ContextDerived") THEN st
    ELSE IF common_consumes(obj) THEN process_unified_sources(st, obj)
    ELSE
    LET st1 == [st EXCEPT !.bfs = get_backend_file_for(@, obj)]
        od == obj.objdir
    IN IF isinstance(obj, "GeneratedFile")
       THEN IF \E i \in 1..Len(obj.outputs) : skipped_output(obj.outputs[i])
            THEN st1
            ELSE IF application_ini_h \in Range(obj.outputs)
            THEN delay(st1, od, obj)
            ELSE process_generated_file(st1, od, obj)
       ELSE IF isinstance(obj, "ChromeManifestEntry")
               /\ IsPrefix(<<"dist", "bin">>, obj.install_target)
       THEN add_manifest_entry(st1, obj)
       ELSE IF isinstance(obj, "Defines") THEN process_defines(st1, od, obj, FALSE)
       ELSE IF isinstance(obj, "HostDefines") THEN process_defines(st1, od, obj, TRUE)
       ELSE IF isinstance(obj, "FinalTargetFiles")
       THEN process_final_target_files(st1, obj)
       ELSE IF isinstance(obj, "FinalTargetPreprocessedFiles")
       THEN process_final_target_pp_files(st1, obj, od, obj.files)
       ELSE IF isinstance(obj, "BaseSources") THEN process_sources(st1, obj, od)
       ELSE IF isinstance(obj, "Program") THEN delay(st1, od, obj)
       ELSE IF isinstance(obj, "SharedLibrary") THEN delay(st1, od, obj)
       ELSE IF isinstance(obj, "StaticLibrary") THEN delay(st1, od, obj)
       ELSE st1

-----------------------------------------------------------------------------
(* TupOnly.consume_finished *)

\* TupOnly._handle_ipdl_sources: the compile rules of the unified IPDL sources
RECURSIVE ipdl_write_sources(_, _, _)
ipdl_write_sources(st, od, mapping) ==
    IF mapping = <<>> THEN st
    ELSE ipdl_write_sources(
            write_sources(st, od, "NoneType", Head(mapping)[1], ".cpp", Head(mapping)[2]),
            od, Tail(mapping))

sorted_mapping(mapping) ==
    SortSeq(mapping, LAMBDA a, b : PathLess(a[1], b[1]))

handle_ipdl_sources(st, ipdl_dir, unified_ipdl_cppsrcs_mapping) ==
    LET st1 == [st EXCEPT !.bfs = get_backend_file(@, ipdl_dir, "", "")]
    IN ipdl_write_sources(st1, AbsObj(ipdl_dir),
                          sorted_mapping(unified_ipdl_cppsrcs_mapping))

\* CommonBackend.consume_finished: hands the collected IPDL sources over
common_consume_finished(st) ==
    IF env.ipdl # <<>> THEN handle_ipdl_sources(st, "ipc/ipdl", env.ipdl) ELSE st

\* the content of a manifest file: ''.join('%s\n' % e for e in sorted(entries))
manifest_content(entries) ==
    LET lines == SortedStrings(entries)
    IN [i \in 1..Len(lines) |-> TextLine(lines[i])]

\* FileAvoidWrite.close: the file is rewritten only if its content differs
file_close(d, name, content) ==
    IF name \in DOMAIN d /\ d[name] = content
    THEN [disk |-> d, changed |-> FALSE]
    ELSE [disk |-> [k \in DOMAIN d \cup {name} |-> IF k = name THEN content ELSE d[k]],
          changed |-> TRUE]

\* what a file written through _write_file leaves behind
WriteFile(w, name, content) ==
    LET r == file_close(w.disk, name, content)
    IN [disk |-> r.disk,
        changed |-> IF r.changed THEN w.changed \cup {name} ELSE w.changed]

RECURSIVE write_manifests(_, _, _)
write_manifests(w, me, keys) ==
    IF keys = {} THEN w
    ELSE LET k == CHOOSE x \in keys : TRUE
         IN write_manifests(WriteFile(w, topobjdir \o "/" \o k, manifest_content(me[k])),
                            me, keys \ {k})

\* the objdirs in descending order
sorted_objdirs_descending(bfs) ==
    LET up == SortedStrings(DOMAIN bfs)
    IN [i \in 1..Len(up) |-> up[Len(up) + 1 - i]]

\* sorted(self._backend_files.items()): the objdirs in sorted order
sorted_objdirs(bfs) == SortedStrings(DOMAIN bfs)

\* a backend whose link step drops the last argument of the database entry
\* in place (cmd.pop()) instead of slicing a copy off it
process_delayed_popping(st, table, od, obj) ==
    LET st1 == IF isinstance(obj, "GeneratedFile") THEN process_generated_file(st, od, obj)
               ELSE process_program(st, table, od, obj)
        key == <<join(od, obj.program), od>>
    IN IF isinstance(obj, "Program") /\ key \in DOMAIN st.db
       THEN [st1 EXCEPT !.db = [@ EXCEPT ![key] = Front(@)]]
       ELSE st1

\* the delayed object of a rule file that consume_finished processes
process_delayed(st, table, od, obj) ==
    IF isinstance(obj, "GeneratedFile") THEN process_generated_file(st, od, obj)
    ELSE IF isinstance(obj, "BaseProgram") THEN process_program(st, table, od, obj)
    ELSE IF isinstance(obj, "SharedLibrary") THEN process_program(st, table, od, obj)
    ELSE IF isinstance(obj, "StaticLibrary") THEN process_program(st, table, od, obj)
    ELSE st

\* the content of Tuprules.tup, for an environment without acdefines
tuprules_content ==
    << TextLine("MOZ_OBJ_ROOT = $(TUP_CWD)"),
       TextLine("DIST = $(MOZ_OBJ_ROOT)/dist"),
       TextLine("ACDEFINES =  -DAB_CD=en-US -DBOOKMARKS_INCLUDE_DIR=" \o topsrcdir
                \o "/browser/locales/en-US/profile -DBUILD_FASTER=1"),
       TextLine("topsrcdir = $(MOZ_OBJ_ROOT)/../src"),
       TextLine("PYTHON = PYTHONDONTWRITEBYTECODE=True $(MOZ_OBJ_ROOT)/_virtualenv/bin/python"),
       TextLine("PYTHON_PATH = $(PYTHON) $(topsrcdir)/config/pythonpath.py"),
       TextLine("PLY_INCLUDE = -I$(topsrcdir)/other-licenses/ply"),
       TextLine("IDL_PARSER_DIR = $(topsrcdir)/xpcom/idl-parser"),
       TextLine("IDL_PARSER_CACHE_DIR = $(MOZ_OBJ_ROOT)/xpcom/idl-parser/xpidl") >>

-----------------------------------------------------------------------------
(* The build objects of the model *)

\* the fields every ContextDerived object has
Ctx(cls, reldir) ==
    [ cls |-> cls, relativedir |-> reldir, relobjdir |-> reldir,
      objdir |-> AbsObj(reldir), srcdir |-> topsrcdir \o "/" \o reldir ]

Fpx == P("/src/p", "x", <<".cpp">>)
Fqx == P("/src/q", "x", <<".cpp">>)
Fpy == P("/src/p", "y", <<".cpp">>)
Fpz == P("/src/p", "z", <<".c">>)
U0 == P("", "U0", <<".cpp">>)
U1 == P("", "U1", <<".cpp">>)

SourcesObj(reldir, files, suffix) ==
    Ctx("Sources", reldir) @@ [files |-> files, canonical_suffix |-> suffix]

UnifiedObj(reldir, files, mapping, have) ==
    Ctx("UnifiedSources", reldir)
    @@ [ files |-> files, canonical_suffix |-> ".cpp", have_unified_mapping |-> have,
         unified_source_mapping |-> mapping ]

LinkObj(cls, name, reldir, file, libs, syslibs) ==
    Ctx(cls, reldir)
    @@ [ name |-> name, program |-> file, lib_name |-> file, import_name |-> file,
         basename |-> name, linked_libraries |-> libs, linked_system_libs |-> syslibs ]

\* the linkables of the build graph, by name; linked_libraries holds names
Linkables ==
    [ E |-> LinkObj("Program", "E", "a", P("", "E", <<>>), <<"libA">>,
                    <<Tok("-lm"), Tok("-lz")>>),
      libA |-> LinkObj("StaticLibrary", "libA", "b", P("", "libA", <<".a">>),
                       <<"libB">>, <<Tok("-lz")>>),
      libB |-> LinkObj("StaticLibrary", "libB", "c", P("", "libB", <<".a">>),
                       <<"libS">>, <<Tok("-lpthread"), Tok("-lz")>>),
      libS |-> LinkObj("SharedLibrary", "libS", "d", P("", "libS", <<".so">>),
                       <<"libT", "libR">>, <<Tok("-ldl")>>),
      libT |-> LinkObj("StaticLibrary", "libT", "a", P("", "libT", <<".a">>),
                       <<>>, <<Tok("-lt"), Tok("-lz")>>),
      libR |-> LinkObj("RustLibrary", "libR", "b", P("", "libR", <<".a">>),
                       <<>>, <<Tok("-lrt")>>),
      libI |-> LinkObj("StaticLibrary", "libI", "ipc/ipdl", P("", "libI", <<".a">>),
                       <<>>, <<>>) ]

ManifestObj(reldir, target, path, entry) ==
    Ctx("ChromeManifestEntry", reldir)
    @@ [install_target |-> target, path |-> path, entry |-> entry]

GeneratedObj(reldir, script, method, outputs, ins, flags) ==
    Ctx("GeneratedFile", reldir)
    @@ [ script |-> script, method |-> method, outputs |-> outputs, inputs |-> ins,
         flags |-> flags ]

DefinesObj(cls, reldir, defines) == Ctx(cls, reldir) @@ [defines |-> defines]

\* a file of an install mapping
InstallFile(cls, topsrc, full_path, segs, found, ctxdir) ==
    [ cls |-> cls, topsrc |-> topsrc, full_path |-> full_path,
      target_basename |-> basename(full_path), segs |-> segs, found |-> found,
      context_relobjdir |-> ctxdir ]

PlainFile(full_path) == InstallFile("SourcePath", FALSE, full_path, <<>>, <<>>, "")

InstallObj(cls, reldir, target, walk) ==
    Ctx(cls, reldir) @@ [install_target |-> target, files |-> walk]

CompileObjects ==
    { SourcesObj("a", <<Fpy, Fpx>>, ".cpp"),
      SourcesObj("a", <<Fpz>>, ".c"),
      SourcesObj("a", <<Fqx>>, ".cpp"),
      SourcesObj("b", <<Fpx>>, ".cpp"),
      UnifiedObj("a", <<Fpx, Fpy>>, << <<U0, <<Fpx, Fpy>> >> >>, TRUE),
      UnifiedObj("b", <<Fqx, Fpy, Fpx>>, << <<U1, <<Fqx>> >>, <<U0, <<Fpy, Fpx>> >> >>,
                 TRUE),
      UnifiedObj("b", <<Fpy>>, <<>>, FALSE) }

LinkObjects == { Linkables[n] : n \in DOMAIN Linkables }

ManifestObjects ==
    { ManifestObj("a", <<"dist", "bin">>, "chrome.manifest", "resource app"),
      ManifestObj("a", <<"dist", "bin">>, "chrome/m.manifest", "locale m"),
      ManifestObj("b", <<"dist", "bin">>, "chrome/m.manifest", "content m"),
      ManifestObj("b", <<"dist", "bin">>, "chrome/m.manifest", "locale m"),
      ManifestObj("b", <<"dist", "xpi-stage">>, "chrome.manifest", "content m") }

OtherObjects ==
    { GeneratedObj("a", "gen.py", "main", <<P("", "g", <<".h">>)>>,
                   <<P("/src/p", "g", <<".in">>)>>, <<Tok("-DNAME=a b")>>),
      GeneratedObj("a", "gen.py", "main", <<application_ini_h>>, <<>>, <<>>),
      GeneratedObj("a", "gen.py", "main", <<P("", "buildid", <<".h">>)>>, <<>>, <<>>),
      DefinesObj("Defines", "a", <<Tok("-DA=1")>>),
      InstallObj("FinalTargetFiles", "a", <<"dist", "bin">>,
                 << << <<>>, <<PlainFile(P("/src/p", "app", <<".ini">>))>> >> >>),
      InstallObj("FinalTargetPreprocessedFiles", "a", <<"dist", "bin">>,
                 << << <<>>, <<PlainFile(P("/src/p", "application", <<".ini">>))>> >> >>) }

-----------------------------------------------------------------------------
(* The production of compile_commands.json: class CompileDBBackend *)

\* CompileDBBackend.COMPILERS
COMPILERS ==
    [ c |-> "$(CC)", cpp |-> "$(CXX)", m |-> "$(CC)", mm |-> "$(CXX)", S |-> "$(AS)",
      s |-> "$(AS)" ]

SuffixKey(canonical_suffix) ==
    CASE canonical_suffix = ".c" -> "c"
      [] canonical_suffix = ".cpp" -> "cpp"
      [] canonical_suffix = ".m" -> "m"
      [] canonical_suffix = ".mm" -> "mm"
      [] canonical_suffix = ".S" -> "S"
      [] canonical_suffix = ".s" -> "s"
      [] OTHER -> ""

\* CompileDBBackend.CFLAGS
CFLAGS(canonical_suffix) ==
    CASE canonical_suffix \in {".c", ".m"} -> "CFLAGS"
      [] canonical_suffix \in {".cpp", ".mm"} -> "CXXFLAGS"
      [] OTHER -> "ASFLAGS"

Words(ss) == [i \in 1..Len(ss) |-> Tok(ss[i])]

\* CompileDBBackend._compiler_db_entry: the flags recorded for a file, in an
\* environment whose substs set none of the optional flag variables
compiler_db_entry(objdir, reldir, canonical_suffix) ==
    IF canonical_suffix = ".s"
    THEN Words(<<"$(AS)", "-o", "/dev/null", "$(ASFLAGS)", "$(MOZBUILD_ASFLAGS)",
                 "$(AS_DASH_C_FLAG)">>)
    ELSE IF canonical_suffix = ".S"
    THEN Words(<<"$(AS)", "-o", "/dev/null", "$(DEFINES)", "$(ASFLAGS)",
                 "$(MOZBUILD_ASFLAGS)", "$(LOCAL_INCLUDES)", "-c">>)
    ELSE Words(<<COMPILERS[SuffixKey(canonical_suffix)], "-o", "/dev/null", "-c">>)
         \o (IF canonical_suffix \in {".mm", ".cpp"} THEN Words(<<"$(STL_FLAGS)">>)
             ELSE <<>>)
         \o Words(<<"$(DEFINES)", "-I" \o topsrcdir \o "/" \o reldir, "-I" \o objdir,
                    "$(LOCAL_INCLUDES)", "-I" \o topobjdir \o "/dist/include",
                    "$(EXTRA_INCLUDES)">>)
         \o (IF canonical_suffix \in {".c", ".cpp"} THEN Words(<<"$(RTL_FLAGS)">>)
             ELSE <<>>)
         \o Words(<<"$(WARNINGS_AS_ERRORS)", "$(MOZBUILD_" \o CFLAGS(canonical_suffix)
                    \o ")">>)
         \o (IF canonical_suffix = ".m" THEN Words(<<"$(MOZBUILD_CMFLAGS)">>)
             ELSE IF canonical_suffix = ".mm" THEN Words(<<"$(MOZBUILD_CMMFLAGS)">>)
             ELSE <<>>)

\* the variables of the expansion: a reference that is not set expands to
\* nothing
DbVariables ==
    [ v \in {"$(CC)", "$(CXX)", "$(DEFINES)", "$(STL_FLAGS)"} |->
        CASE v = "$(CC)" -> Words(<<"gcc">>)
          [] v = "$(CXX)" -> Words(<<"$(CC)", "-x", "c++">>)
          [] v = "$(DEFINES)" -> Words(<<"-DA=1">>)
          [] v = "$(STL_FLAGS)" -> <<>> ]

IsReference(w) ==
    w.dir = "" /\ w.ext = <<>> /\ w.stem \in
        { "$(CC)", "$(CXX)", "$(AS)", "$(DEFINES)", "$(STL_FLAGS)", "$(ASFLAGS)",
          "$(MOZBUILD_ASFLAGS)", "$(AS_DASH_C_FLAG)", "$(LOCAL_INCLUDES)",
          "$(EXTRA_INCLUDES)", "$(RTL_FLAGS)", "$(WARNINGS_AS_ERRORS)",
          "$(MOZBUILD_CFLAGS)", "$(MOZBUILD_CXXFLAGS)", "$(MOZBUILD_CMFLAGS)",
          "$(MOZBUILD_CMMFLAGS)" }

\* expand_variables(a, variables).split() for one argument
expand_word(w, variables) ==
    IF IsReference(w)
    THEN IF w.stem \in DOMAIN variables THEN variables[w.stem] ELSE <<>>
    ELSE <<w>>

\* one pass of the "while True" loop of CompileDBBackend.consume_finished
RECURSIVE expand_once(_, _)
expand_once(cmd, variables) ==
    IF cmd = <<>> THEN <<>>
    ELSE expand_word(Head(cmd), variables) \o expand_once(Tail(cmd), variables)

\* number of passes the model follows the expansion loop
MaxExpand == 4

\* the expansion loop: until a pass changes nothing
RECURSIVE expand_loop(_, _, _)
expand_loop(cmd, variables, fuel) ==
    LET c == expand_once(cmd, variables)
    IN IF c = cmd \/ fuel = 0 THEN c ELSE expand_loop(c, variables, fuel - 1)

\* a record that names the file of the entry, whatever it is unified into
db_line_own_name(directory, filename, unified, cmd, variables, none, flags) ==
    LET c == expand_loop(Append(cmd, filename), variables, MaxExpand)
        c1 == IF none THEN c ELSE c \o flags
    IN [ file |-> join(directory, filename),
         command |-> [i \in 1..Len(c1) |-> shell_quote(c1[i])],
         directory |-> directory ]

\* the record CompileDBBackend.consume_finished writes for the entry
\* (directory, filename, unified) of self._db; flags is the entry of
\* self._per_source_flags for filename, none tells that there is none
db_line(directory, filename, unified, cmd, variables, none, flags) ==
    LET cmd1 == Append(cmd, IF unified = None THEN filename ELSE unified)
        c == expand_loop(cmd1, variables, MaxExpand)
        c1 == IF none THEN c ELSE c \o flags
    IN DbRecord(join(directory, filename),
                [i \in 1..Len(c1) |-> shell_quote(c1[i])],
                directory)

\* CompileDBBackend._process_unified_sources followed by consume_finished:
\* the records of one unified mapping; psf maps a file to its per-source flags
RECURSIVE unified_db_lines(_, _, _)
unified_db_lines(obj, mapping, psf) ==
    IF mapping = <<>> THEN <<>>
    ELSE LET u == Head(mapping)[1]
             tmpl == compiler_db_entry(obj.objdir, obj.relativedir, obj.canonical_suffix)
             line(f, unified) ==
                 db_line(obj.objdir, f, unified, tmpl, DbVariables,
                         f \notin DOMAIN psf, Get(psf, f, <<>>))
             sub == Head(mapping)[2]
         IN <<line(u, None)>> \o [i \in 1..Len(sub) |-> line(sub[i], u)]
            \o unified_db_lines(obj, Tail(mapping), psf)

-----------------------------------------------------------------------------
(* The content of compile_commands.json *)

CxxCmd(file) ==
    << Tok("g++"), Tok("-o"), Tok("/dev/null"), Tok("-c"), file >>

UnifiedA == UnifiedObj("a", <<Fpx, Fpy>>, << <<U0, <<Fpx, Fpy>> >> >>, TRUE)

LinkRecordE ==
    DbRecord(P("/obj/a", "E", <<>>),
             << Tok("g++"), Tok("-o"), Tok("/dev/null"), ObjsPlaceholder, Tok("$(OS_LIBS)"),
                Tok("E") >>, "/obj/a")

Readable(records) == [readable |-> TRUE, records |-> records]

\* databases that hold the records of the compilation-database backend
ProducedDbFiles ==
    { Readable(unified_db_lines(UnifiedA, UnifiedA.unified_source_mapping, EmptyMap)),
      Readable(unified_db_lines(UnifiedA, UnifiedA.unified_source_mapping,
                                (Fpx :> Words(<<"-O3">>)))) }

\* databases written by some other tracer
TracedDbFiles ==
    { Readable(<<>>),
      Readable(<< DbRecord(Fpx, CxxCmd(Fpx), "/obj/a"),
                  DbRecord(Fpy, <<>>, "/obj/a"), LinkRecordE >>),
      Readable(<< DbRecord(U0, CxxCmd(U0), "/obj/a"),
                  DbRecord(Fpx, CxxCmd(Fpx), "/obj/a") >>),
      Readable(<< DbRecord(U0, <<>>, "/obj/a"),
                  DbRecord(Fpx, CxxCmd(Fpx), "/obj/a") >>),
      Readable(<< DbRecord(Fpy, CxxCmd(Fpy), "/obj/a"),
                  DbRecord(Fpy, CxxCmd(Fpy), "/obj/b") >>) }

RECURSIVE load_records(_, _)
load_records(db, records) ==
    IF records = <<>> THEN db
    ELSE LET entry == Head(records)
         IN IF {"file", "command", "directory"} \subseteq DOMAIN entry
            THEN load_records(
                    [k \in DOMAIN db \cup {<<entry.file, entry.directory>>} |->
                        IF k = <<entry.file, entry.directory>>
                        THEN LoadCommand(entry.command) ELSE db[k]],
                    Tail(records))
            ELSE db

\* the loading of the database in TupOnly._init
load_commands_db(file) ==
    IF file.readable THEN load_records(EmptyMap, file.records) ELSE EmptyMap

\* the unified IPDL sources CommonBackend hands to _handle_ipdl_sources
IpdlMapping == << <<P("", "PFoo", <<".cpp">>), <<P("", "PFooChild", <<".cpp">>)>> >> >>

PlainEnv == [is_artifact_build |-> FALSE, ipdl |-> <<>>]
IpdlEnv == [is_artifact_build |-> FALSE, ipdl |-> IpdlMapping]

-----------------------------------------------------------------------------
(* The runs of the backend *)

\* the state the handlers work on, from the variables
State ==
    [ bfs |-> backend_files, mc |-> missing_commands, me |-> manifest_entries,
      db |-> commands_db, raised |-> FALSE ]

InitWith(objects, dbfiles, envs) ==
    /\ pc = "walk"
    /\ run = 1
    /\ universe = objects
    /\ walked = <<>>
    /\ pos = 0
    /\ dbfile \in dbfiles
    /\ env \in envs
    /\ commands_db = load_commands_db(dbfile)
    /\ backend_files = EmptyMap
    /\ manifest_entries = EmptyMap
    /\ missing_commands = EmptyMap
    /\ todo = <<>>
    /\ dq = 1
    /\ disk = EmptyMap
    /\ changed = {}

\* the objects the frontend may deliver next: in the first run any object it
\* has not delivered yet, in the second run the same sequence again
NextObjects ==
    IF run = 1
    THEN IF pos < MaxObjs THEN universe \ Range(walked) ELSE {}
    ELSE IF pos < Len(walked) THEN {walked[pos + 1]} ELSE {}

\* the frontend delivers one build object
ConsumeObject ==
    /\ pc = "walk"
    /\ \E obj \in NextObjects :
        LET st == consume_object(State, obj)
        IN /\ backend_files' = st.bfs
           /\ missing_commands' = st.mc
           /\ manifest_entries' = st.me
           /\ commands_db' = st.db
           /\ pc' = IF st.raised THEN "error" ELSE "walk"
           /\ walked' = IF run = 1 THEN Append(walked, obj) ELSE walked
           /\ pos' = pos + 1
    /\ UNCHANGED <<run, universe, dbfile, env, todo, dq, disk, changed>>

\* consume_finished up to the loop over the rule files
ConsumeFinished ==
    /\ pc = "walk"
    /\ run = 2 => pos = Len(walked)
    /\ LET st == common_consume_finished(State)
           w == write_manifests([disk |-> disk, changed |-> changed], st.me,
                                DOMAIN st.me)
       IN /\ backend_files' = st.bfs
          /\ missing_commands' = st.mc
          /\ manifest_entries' = st.me
          /\ commands_db' = st.db
          /\ disk' = w.disk
          /\ changed' = w.changed
          /\ todo' = sorted_objdirs(st.bfs)
    /\ dq' = 1
    /\ pc' = "drain"
    /\ UNCHANGED <<run, universe, walked, pos, dbfile, env>>

\* consume_finished: the next delayed object of the current rule file
ProcessDelayed ==
    /\ pc = "drain"
    /\ todo # <<>>
    /\ dq <= Len(backend_files[Head(todo)].delayed_generated_files)
    /\ LET od == Head(todo)
           st == process_delayed(State, Linkables, od,
                                 backend_files[od].delayed_generated_files[dq])
       IN /\ backend_files' = st.bfs
          /\ missing_commands' = st.mc
          /\ manifest_entries' = st.me
          /\ commands_db' = st.db
    /\ dq' = dq + 1
    /\ UNCHANGED <<pc, run, universe, walked, pos, dbfile, env, todo, disk, changed>>

\* consume_finished: "with self._write_file(fh=backend_file)"
CloseFile ==
    /\ pc = "drain"
    /\ todo # <<>>
    /\ dq > Len(backend_files[Head(todo)].delayed_generated_files)
    /\ LET od == Head(todo)
           w == WriteFile([disk |-> disk, changed |-> changed], od \o "/Tupfile",
                          backend_files[od].fh)
       IN /\ disk' = w.disk
          /\ changed' = w.changed
    /\ todo' = Tail(todo)
    /\ dq' = 1
    /\ UNCHANGED <<pc, run, universe, walked, pos, dbfile, env, commands_db,
                   backend_files, manifest_entries, missing_commands>>

\* consume_finished: Tuprules.tup and 'tup init'
WriteTuprules ==
    /\ pc = "drain"
    /\ todo = <<>>
    /\ LET w == WriteFile([disk |-> disk, changed |-> changed],
                          topobjdir \o "/Tuprules.tup", tuprules_content)
           marker == topsrcdir \o "/.tup"
       IN /\ disk' = IF marker \in DOMAIN w.disk THEN w.disk
                     ELSE w.disk @@ (marker :> <<>>)
          /\ changed' = w.changed
    /\ pc' = "done"
    /\ UNCHANGED <<run, universe, walked, pos, dbfile, env, commands_db, backend_files,
                   manifest_entries, missing_commands, todo, dq>>

\* the backend is run again on the same objects and the same database
Rerun ==
    /\ pc = "done"
    /\ run = 1
    /\ run' = 2
    /\ pc' = "walk"
    /\ pos' = 0
    /\ commands_db' = load_commands_db(dbfile)
    /\ backend_files' = EmptyMap
    /\ manifest_entries' = EmptyMap
    /\ missing_commands' = EmptyMap
    /\ changed' = {}
    /\ UNCHANGED <<universe, walked, dbfile, env, todo, dq, disk>>

Next ==
    \/ ConsumeObject
    \/ ConsumeFinished
    \/ ProcessDelayed
    \/ CloseFile
    \/ WriteTuprules
    \/ Rerun

\* the whole backend on a build graph with objects of every kind
MixedObjects ==
    { SourcesObj("a", <<Fpy, Fpx>>, ".cpp"),
      SourcesObj("a", <<Fqx>>, ".cpp"),
      UnifiedA,
      Linkables["E"],
      Linkables["libA"],
      Linkables["libT"],
      ManifestObj("a", <<"dist", "bin">>, "chrome/m.manifest", "locale m"),
      ManifestObj("b", <<"dist", "bin">>, "chrome/m.manifest", "content m") }
    \cup OtherObjects

Init ==
    InitWith(MixedObjects, {Readable(<<DbRecord(Fpx, CxxCmd(Fpx), "/obj/a"), LinkRecordE>>)},
             {PlainEnv, IpdlEnv})

Spec == Init /\ [][Next]_vars

\* the compile rules, against every database of the model
InitCompile ==
    InitWith(CompileObjects \cup {Linkables["E"]}, ProducedDbFiles \cup TracedDbFiles,
             {PlainEnv, IpdlEnv})

SpecCompile == InitCompile /\ [][Next]_vars

\* the link rules
InitLink ==
    InitWith(LinkObjects
                \cup { SourcesObj("a", <<Fpy, Fpx>>, ".cpp"), SourcesObj("a", <<Fpz>>, ".c"),
                       UnifiedObj("b", <<Fpy>>, <<>>, FALSE) },
             {Readable(<<>>), Readable(<<LinkRecordE>>)}, {PlainEnv, IpdlEnv})

SpecLink == InitLink /\ [][Next]_vars

\* the manifests
InitManifest ==
    InitWith(ManifestObjects \cup {Linkables["E"], SourcesObj("a", <<Fpz>>, ".c")},
             {Readable(<<>>)}, {PlainEnv})

SpecManifest == InitManifest /\ [][Next]_vars

-----------------------------------------------------------------------------
(* Reading the rule files *)

\* the objects delivered so far in the current run
Delivered == SubSeq(walked, 1, pos)

\* the positions of the rules of the rule file of od
RuleIds ==
    UNION { { <<od, i>> : i \in { j \in 1..Len(backend_files[od].fh) :
                                    backend_files[od].fh[j].kind = "rule" } } :
            od \in DOMAIN backend_files }

RuleAt(id) == backend_files[id[1]].fh[id[2]]

IsCompileRule(r) == r.outputs[1] = P("", "%B", <<".o">>)
IsLinkRule(r) == r.display = "o LINK %o"
IsArchiveRule(r) == r.display = "o AR %o"

\* the unified inputs a compile rule was emitted with
UnifiedInputsOf(r) == SubSeq(r.extra_inputs, 3, Len(r.extra_inputs))

\* the words of a command, the joined ones one by one
CmdWords(cmd) ==
    UNION { IF "joined" \in DOMAIN cmd[i] THEN Range(cmd[i].joined) ELSE {cmd[i]} :
            i \in 1..Len(cmd) }

\* the directory a rule of the rule file of od writes a path to
ResolveDir(d, od) ==
    CASE d = "" -> od
      [] d = "$(MOZ_OBJ_ROOT)" -> topobjdir
      [] d = "$(MOZ_OBJ_ROOT)/dist/bin" -> topobjdir \o "/dist/bin"
      [] OTHER -> d

\* the files a rule writes: %B is the name of the first input without its
\* directory and extension; the groups are no files
ConcreteOutputs(id) ==
    LET r == RuleAt(id)
        outs == Range(r.outputs \o r.extra_outputs) \ Groups
    IN { LET q == IF o.stem = "%B" THEN [ObjectName(r.inputs[1]) EXCEPT !.dir = o.dir]
                  ELSE o
         IN [q EXCEPT !.dir = ResolveDir(q.dir, id[1])] : o \in outs }

-----------------------------------------------------------------------------
(* C1 *)

\* C1: after a full run no file is an output of two rules, over all rule
\* files; the groups <includes>, <installed-files>, <objects> are exempt.
C1_SingleProducer ==
    pc = "done" =>
        \A a, b \in RuleIds : a # b => ConcreteOutputs(a) \cap ConcreteOutputs(b) = {}

-----------------------------------------------------------------------------
(* C2 *)

\* the translation units of a build object: the unified files when the object
\* has a unified mapping, else its files
TranslationUnits(obj) ==
    IF ~isinstance(obj, "BaseSources") THEN {}
    ELSE IF isinstance(obj, "UnifiedSources") /\ obj.have_unified_mapping
    THEN { obj.unified_source_mapping[i][1] : i \in 1..Len(obj.unified_source_mapping) }
    ELSE Range(obj.files)

\* the objects of the translation units of a directory
DirObjects(od) ==
    { ObjectName(f) :
        f \in UNION { TranslationUnits(Delivered[i]) :
                        i \in { j \in 1..pos : Delivered[j].objdir = od } } }
    \cup (IF od = AbsObj("ipc/ipdl")
          THEN { ObjectName(env.ipdl[i][1]) : i \in 1..Len(env.ipdl) }
          ELSE {})

\* no link or archive-description rule is emitted during the graph walk
C2_NoLinkRuleDuringWalk ==
    pc = "walk" =>
        \A id \in RuleIds : ~IsLinkRule(RuleAt(id)) /\ ~IsArchiveRule(RuleAt(id))

\* C2: link targets are only enqueued during the walk, and every link or
\* archive-description rule, built in the deferred phase, has among its inputs
\* the object of every translation unit of its directory.
C2_TwoPhase ==
    /\ C2_NoLinkRuleDuringWalk
    /\ \A id \in RuleIds :
        IsLinkRule(RuleAt(id)) \/ IsArchiveRule(RuleAt(id))
            => DirObjects(id[1]) \subseteq Range(RuleAt(id).inputs)

-----------------------------------------------------------------------------
(* C3 *)

\* the rules that write the file out in the rule file of od
RulesWriting(od, out) ==
    { id \in RuleIds : id[1] = od /\ RuleAt(id).outputs = <<out>> }

ELinkRules == RulesWriting(Linkables["E"].objdir, Linkables["E"].program)

\* C3 as the code has it: for E -> libA -> libB -> libS the link rule of E
\* lists libA (its descriptor as the input) and libS, not libB, which only the
\* archive-description rule of libA lists, and nothing reachable through libS.
C3_LinkClosure ==
    /\ \A id \in ELinkRules :
        LET listed == CmdWords(RuleAt(id).cmd)
            ins == Range(RuleAt(id).inputs)
        IN /\ LibPath(Linkables["libA"]) \in listed
           /\ addext(LibPath(Linkables["libA"]), ".desc") \in ins
           /\ LibPath(Linkables["libS"]) \in listed
           /\ LibPath(Linkables["libS"]) \in ins
           /\ LibPath(Linkables["libB"]) \notin listed
           /\ addext(LibPath(Linkables["libB"]), ".desc") \notin ins
           /\ LibPath(Linkables["libT"]) \notin listed
           /\ LibPath(Linkables["libR"]) \notin listed
    /\ \A id \in RulesWriting(Linkables["libA"].objdir,
                              addext(Linkables["libA"].lib_name, ".desc")) :
        LibPath(Linkables["libB"]) \in CmdWords(RuleAt(id).cmd)

\* the link rule of E has been emitted, with libA's own rule
C3_Witness ==
    /\ ELinkRules # {}
    /\ RulesWriting(Linkables["libA"].objdir,
                    addext(Linkables["libA"].lib_name, ".desc")) # {}

\* C3 as stated: the link rule of E lists libA and libB, libS, and nothing
\* reachable only through libS.
C3_ListsWholeStaticClosure ==
    \A id \in ELinkRules :
        LET listed == CmdWords(RuleAt(id).cmd)
        IN /\ LibPath(Linkables["libA"]) \in listed
           /\ LibPath(Linkables["libB"]) \in listed
           /\ LibPath(Linkables["libS"]) \in listed
           /\ LibPath(Linkables["libT"]) \notin listed
           /\ LibPath(Linkables["libR"]) \notin listed

-----------------------------------------------------------------------------
(* C4 *)

RECURSIVE Flat(_)
Flat(ss) == IF ss = <<>> THEN <<>> ELSE Head(ss) \o Flat(Tail(ss))

IsStatic(name) == isinstance(Linkables[name], "StaticLibrary")

\* a static library after the static libraries it links, depth first
RECURSIVE StaticOrder(_)
StaticOrder(name) ==
    LET deps == SelectSeq(Linkables[name].linked_libraries, IsStatic)
    IN Flat([i \in 1..Len(deps) |-> StaticOrder(deps[i])]) \o <<name>>

\* the static libraries of the flattened closure of a link target, in the
\* order of the traversal; a library target skips the Rust libraries it links
ClosureOrder(obj) ==
    LET direct(n) == IsStatic(n) /\ (isinstance(obj, "Library")
                                        => ~isinstance(Linkables[n], "RustLibrary"))
        deps == SelectSeq(obj.linked_libraries, direct)
    IN Flat([i \in 1..Len(deps) |-> StaticOrder(deps[i])])

\* the elements of a list at their first occurrence, in order
FirstOccurrences(s) ==
    LET idx == { i \in 1..Len(s) : \A j \in 1..(i - 1) : s[j] # s[i] }
    IN [k \in 1..Cardinality(idx) |->
            s[CHOOSE i \in idx : Cardinality({ j \in idx : j < i }) = k - 1]]

DeclaredSystemLibs(obj) ==
    LET order == ClosureOrder(obj)
    IN Flat([i \in 1..Len(order) |-> Linkables[order[i]].linked_system_libs])
       \o obj.linked_system_libs

IsObjectOrLibrary(w) ==
    \/ "joined" \in DOMAIN w
    \/ w.ext # <<>> /\ Last(w.ext) \in {".o", ".a", ".so"}

LinkTargets ==
    { n \in DOMAIN Linkables : Linkables[n].cls \in {"Program", "SharedLibrary"} }

\* C4: the link command of a program or shared library ends with the system
\* libraries declared on the target and on the static libraries of its
\* closure, each once, in the order of first occurrence, after the objects and
\* libraries.
C4_SystemLibs ==
    \A n \in LinkTargets :
        \A id \in RulesWriting(Linkables[n].objdir, Linkables[n].program) :
            LET cmd == RuleAt(id).cmd
                want == FirstOccurrences(DeclaredSystemLibs(Linkables[n]))
                k == Len(cmd) - Len(want)
            IN /\ k >= 0
               /\ SubSeq(cmd, k + 1, Len(cmd)) = want
               /\ \A i \in 1..Len(cmd) : IsObjectOrLibrary(cmd[i]) => i <= k
               /\ RuleAt(id).inputs # <<>> => \E i \in 1..k : IsObjectOrLibrary(cmd[i])

\* E and libS are linked: a system library declared several times, and
\* objects before the system libraries
C4_Witness ==
    /\ ELinkRules # {}
    /\ RulesWriting(Linkables["libS"].objdir, Linkables["libS"].lib_name) # {}
    /\ \E id \in ELinkRules : Len(RuleAt(id).inputs) >= 3
    /\ Len(DeclaredSystemLibs(Linkables["E"]))
         > Len(FirstOccurrences(DeclaredSystemLibs(Linkables["E"])))

-----------------------------------------------------------------------------
(* C5 *)

\* consume_object over a list of objects, from the state _init leaves
RECURSIVE Replay(_, _)
Replay(st, objs) ==
    IF objs = <<>> THEN st ELSE Replay(consume_object(st, Head(objs)), Tail(objs))

FreshState ==
    [ bfs |-> EmptyMap, mc |-> EmptyMap, me |-> EmptyMap, db |-> commands_db,
      raised |-> FALSE ]

\* the orders of delivery that differ from the present one within one directory
DirectoryOrders ==
    { p \in [1..Len(walked) -> 1..Len(walked)] :
        /\ \A i, j \in 1..Len(walked) : p[i] = p[j] => i = j
        /\ \E d \in { walked[i].objdir : i \in 1..Len(walked) } :
            \A i \in 1..Len(walked) : walked[i].objdir # d => p[i] = i }

\* C5: the source closure of every rule file is the same for every order in
\* which the objects of one directory are delivered.
C5_ClosureDeterminism ==
    run = 1 /\ pc = "walk" =>
        \A p \in DirectoryOrders :
            LET st == Replay(FreshState, [i \in 1..Len(walked) |-> walked[p[i]]])
            IN \A od \in DOMAIN backend_files :
                st.bfs[od].sources = backend_files[od].sources

-----------------------------------------------------------------------------
(* C6 *)

\* the manifest entries the backend aggregates
Aggregated ==
    { i \in 1..pos : /\ Delivered[i].cls = "ChromeManifestEntry"
                     /\ IsPrefix(<<"dist", "bin">>, Delivered[i].install_target) }

ManifestPath(obj) == SegText(obj.install_target) \o "/" \o obj.path
TopLevel(obj) == SegText(obj.install_target) \o "/chrome.manifest"

Destinations ==
    { ManifestPath(Delivered[i]) : i \in Aggregated }
    \cup { TopLevel(Delivered[i]) : i \in Aggregated }

\* the lines added for a destination
ManifestLines(k) ==
    { Delivered[i].entry : i \in { j \in Aggregated : ManifestPath(Delivered[j]) = k } }
    \cup { "manifest " \o Delivered[i].path :
            i \in { j \in Aggregated : /\ TopLevel(Delivered[j]) = k
                                       /\ ManifestPath(Delivered[j]) # k } }

\* C6: once the manifests are flushed, every destination holds the lines added
\* for it, each once, in ascending order, whatever the order of the entries.
C6_ManifestAggregation ==
    pc \in {"drain", "done"} =>
        \A k \in Destinations :
            /\ (topobjdir \o "/" \o k) \in DOMAIN disk
            /\ LET c == disk[topobjdir \o "/" \o k]
               IN /\ \A i \in 1..Len(c) : c[i].kind = "text"
                  /\ { c[i].s : i \in 1..Len(c) } = ManifestLines(k)
                  /\ \A i, j \in 1..Len(c) : i < j => Rank(c[i].s) < Rank(c[j].s)

\* three entries of two directories went to one manifest, one line twice
C6_Witness ==
    /\ pc = "done"
    /\ Cardinality({ i \in Aggregated :
                        ManifestPath(Delivered[i]) = "dist/bin/chrome/m.manifest" }) = 3
    /\ Len(disk[topobjdir \o "/dist/bin/chrome/m.manifest"]) = 2

-----------------------------------------------------------------------------
(* C7 *)

-----------------------------------------------------------------------------
(* C8 *)

\* the compile requests of a build object: the file and its unified inputs
Requests(obj) ==
    IF ~isinstance(obj, "BaseSources") THEN {}
    ELSE IF isinstance(obj, "UnifiedSources")
    THEN IF obj.have_unified_mapping
         THEN { <<obj.unified_source_mapping[i][1],
                  MappingGet(obj.unified_source_mapping, obj.unified_source_mapping[i][1])>> :
                i \in 1..Len(obj.unified_source_mapping) }
         ELSE {}
    ELSE { <<f, <<>>>> : f \in Range(obj.files) }

\* the entry the database holds for a file of a directory is of use
Usable(f, od) == <<f, od>> \in DOMAIN commands_db /\ commands_db[<<f, od>>] # <<>>

\* a request the database has no usable entry for
Missed(q, od) ==
    IF <<q[1], od>> \in DOMAIN commands_db THEN ~Usable(q[1], od)
    ELSE q[2] = <<>> \/ ~Usable(q[2][1], od)

\* the requests made so far, with the object they were made for
RequestsMade ==
    { <<i, q>> \in (1..pos) \X UNION { Requests(Delivered[i]) : i \in 1..pos } :
        q \in Requests(Delivered[i]) }

IpdlRequests ==
    IF pc \in {"drain", "done"}
    THEN { <<env.ipdl[i][1], env.ipdl[i][2]>> : i \in 1..Len(env.ipdl) }
    ELSE {}

CounterKeys ==
    {".c", ".cpp"} \cup {"Sources", "UnifiedSources", "NoneType"}

ExpectedMisses(key) ==
    Cardinality({ m \in RequestsMade :
                    /\ Missed(m[2], Delivered[m[1]].objdir)
                    /\ key \in {Delivered[m[1]].canonical_suffix, Delivered[m[1]].cls} })
    + Cardinality({ q \in IpdlRequests :
                    /\ Missed(q, AbsObj("ipc/ipdl"))
                    /\ key \in {".cpp", "NoneType"} })

CompileRulesFor(od, q) ==
    { id \in RuleIds : /\ id[1] = od
                       /\ IsCompileRule(RuleAt(id))
                       /\ RuleAt(id).inputs = <<q[1]>>
                       /\ UnifiedInputsOf(RuleAt(id)) = q[2] }

\* C8: every compile request has its one compile rule, with the touch command
\* when the database has no usable entry; the misses are counted by suffix and
\* by kind of object; a compile request never ends the run.
C8_MissingCommand ==
    /\ \A m \in RequestsMade :
        LET od == Delivered[m[1]].objdir
            rules == CompileRulesFor(od, m[2])
        IN /\ Cardinality(rules)
                = Cardinality({ n \in RequestsMade :
                                  n[2] = m[2] /\ Delivered[n[1]].objdir = od })
           /\ Missed(m[2], od) => \A id \in rules : RuleAt(id).cmd = TouchCmd
           /\ ~Missed(m[2], od) => \A id \in rules : RuleAt(id).cmd # TouchCmd
    /\ \A key \in CounterKeys : Get(missing_commands, key, 0) = ExpectedMisses(key)
    /\ DOMAIN missing_commands \subseteq CounterKeys
    /\ pc = "error" => Requests(Delivered[pos]) = {}

\* a miss was followed by another object: an entry without a command counts
\* as a miss, and the object after it got its rule
C8_Witness ==
    /\ pos = 3
    /\ pc = "walk"
    /\ Get(missing_commands, ".cpp", 0) >= 1
    /\ \E m \in RequestsMade :
        /\ m[1] = 1
        /\ <<m[2][1], Delivered[1].objdir>> \in DOMAIN commands_db
        /\ Missed(m[2], Delivered[1].objdir)
    /\ \E m \in RequestsMade :
        /\ m[1] = 3
        /\ ~Missed(m[2], Delivered[3].objdir)
        /\ CompileRulesFor(Delivered[3].objdir, m[2]) # {}

-----------------------------------------------------------------------------
(* C9 *)

UnifiedRules ==
    { id \in RuleIds : IsCompileRule(RuleAt(id)) /\ UnifiedInputsOf(RuleAt(id)) # <<>> }

CommandOr(key) == IF commands_db[key] = <<>> THEN TouchCmd ELSE commands_db[key]

\* C9: the command of a unified unit is the entry of the unified name if the
\* database has one, else the entry of the first constituent if it has one;
\* no other constituent is consulted.
C9_UnifiedLookupOrder ==
    \A id \in UnifiedRules :
        LET r == RuleAt(id)
            u == <<r.inputs[1], id[1]>>
            first == <<UnifiedInputsOf(r)[1], id[1]>>
        IN r.cmd = IF u \in DOMAIN commands_db THEN CommandOr(u)
                   ELSE IF first \in DOMAIN commands_db THEN CommandOr(first)
                   ELSE TouchCmd

\* each case happens: both entries present and different, only the first
\* constituent's, and only another constituent's
C9_Witness ==
    \E id \in UnifiedRules :
        LET r == RuleAt(id)
            u == <<r.inputs[1], id[1]>>
            first == <<UnifiedInputsOf(r)[1], id[1]>>
        IN /\ u \in DOMAIN commands_db
           /\ first \in DOMAIN commands_db
           /\ commands_db[u] # commands_db[first]
           /\ commands_db[first] # <<>>
           /\ r.cmd = commands_db[u]

-----------------------------------------------------------------------------
(* C10 *)

\* the unified rules whose unified name has no entry while the first
\* constituent has one with a command
FallbackRules ==
    { id \in UnifiedRules :
        /\ <<RuleAt(id).inputs[1], id[1]>> \notin DOMAIN commands_db
        /\ Usable(UnifiedInputsOf(RuleAt(id))[1], id[1]) }

Recorded(id) == commands_db[<<UnifiedInputsOf(RuleAt(id))[1], id[1]>>]

\* the per-source flags the database backend had for a file when it wrote
\* the database
FlagsOf(f) ==
    IF dbfile = Readable(unified_db_lines(UnifiedA, UnifiedA.unified_source_mapping,
                                          EmptyMap))
    THEN <<>>
    ELSE IF f = Fpx THEN Words(<<"-O3">>) ELSE <<>>

\* C10 as the code has it: the rule gets the recorded command of the first
\* constituent as it is; in a database of the compilation-database backend
\* that command names the unified file, followed by the per-source flags of
\* the constituent, so the name is the last argument only without such flags.
C10_FallbackCommand ==
    \A id \in FallbackRules :
        /\ RuleAt(id).cmd = Recorded(id)
        /\ dbfile \in ProducedDbFiles =>
            LET flags == FlagsOf(UnifiedInputsOf(RuleAt(id))[1])
                n == Len(RuleAt(id).cmd) - Len(flags)
            IN /\ n >= 1
               /\ RuleAt(id).cmd[n] = RuleAt(id).inputs[1]
               /\ SubSeq(RuleAt(id).cmd, n + 1, Len(RuleAt(id).cmd)) = flags

\* the fallback is taken on a database of the compilation-database backend
\* whose record has per-source flags
C10_Witness ==
    \E id \in FallbackRules :
        /\ dbfile \in ProducedDbFiles
        /\ FlagsOf(UnifiedInputsOf(RuleAt(id))[1]) # <<>>
        /\ Last(RuleAt(id).cmd) # RuleAt(id).inputs[1]

\* C10 as stated: the command is the recorded command of the constituent with
\* the unified name in the place of its last argument.
C10_UnifiedNameLast ==
    \A id \in FallbackRules :
        RuleAt(id).cmd = Append(Front(Recorded(id)), RuleAt(id).inputs[1])

-----------------------------------------------------------------------------
(* C11 *)

IsHeaderOutput(o) == endswith(o, ".h") \/ endswith(o, ".cfg")

\* the rules _process_generated_file emits
IsGeneratedRule(r) ==
    Len(r.cmd) >= 3 /\ SubSeq(r.cmd, 1, 3) = py_action("file_generate")

\* the rules symlink_rule emits
IsSymlinkRule(r) == r.cmd = <<Tok("!tup_ln")>>

\* the output group the caller of BackendTupfile.rule passed for a rule of the
\* rule file: _process_generated_file and the source branches of
\* _process_final_target_files pass <installed-files>, _write_sources passes
\* <objects>, every other caller passes none
ExplicitGroup(r) ==
    IF IsGeneratedRule(r) THEN installed_files
    ELSE IF IsCompileRule(r) THEN objects_group
    ELSE IF IsSymlinkRule(r) /\ r.outputs[1].dir # "$(MOZ_OBJ_ROOT)/dist/bin"
    THEN installed_files
    ELSE None

\* the groups among the outputs of a rule
GroupsOf(r) == Range(r.outputs) \cap Groups

\* the outputs of a rule that are files
FileOutputs(r) == { r.outputs[i] : i \in { j \in 1..Len(r.outputs) : r.outputs[j] \notin Groups } }

\* C11: every rule with an output ending in .h or .cfg lists <includes> among
\* its outputs, unless its caller passed an explicit group: then that group is
\* the one attached to the rule and <includes> does not take its place.
C11_HeaderBarrier ==
    \A id \in RuleIds :
        LET r == RuleAt(id)
        IN IF ExplicitGroup(r) # None
           THEN GroupsOf(r) = {ExplicitGroup(r)}
           ELSE (\E o \in FileOutputs(r) : IsHeaderOutput(o)) => includes_group \in GroupsOf(r)

\* C11 as the code has it: a rule with an output ending in .h or .cfg lists
\* <includes> and no other group, also when its caller passed another group;
\* any other rule lists the group its caller passed, or none.
C11_HeaderGroup ==
    \A id \in RuleIds :
        LET r == RuleAt(id)
        IN IF \E o \in FileOutputs(r) : IsHeaderOutput(o)
           THEN GroupsOf(r) = {includes_group}
           ELSE GroupsOf(r) = {ExplicitGroup(r)} \ {None}

\* a generated header and an installed header, both emitted with the group
\* <installed-files>, next to a generated text file emitted with it as well
C11_Witness ==
    \E g, i, t \in RuleIds :
        /\ IsGeneratedRule(RuleAt(g)) /\ endswith(RuleAt(g).outputs[1], ".h")
        /\ IsSymlinkRule(RuleAt(i)) /\ endswith(RuleAt(i).outputs[1], ".h")
        /\ IsGeneratedRule(RuleAt(t)) /\ ~ \E o \in FileOutputs(RuleAt(t)) : IsHeaderOutput(o)

-----------------------------------------------------------------------------
(* Runs on a build graph with header-producing rules *)

ArtifactEnv == [is_artifact_build |-> TRUE, ipdl |-> <<>>]

HeaderObjects ==
    { GeneratedObj("a", "gen.py", "main", <<P("", "g", <<".h">>)>>,
                   <<P("/src/p", "g", <<".in">>)>>, <<Tok("-DNAME=a b")>>),
      GeneratedObj("a", "gen.py", "main", <<application_ini_h>>, <<>>, <<>>),
      GeneratedObj("b", "cfg.py", "main", <<P("", "k", <<".cfg">>)>>, <<>>, <<>>),
      GeneratedObj("b", "gen.py", "main", <<P("", "t", <<".txt">>)>>, <<>>, <<>>),
      InstallObj("FinalTargetFiles", "a", <<"dist", "include">>,
                 << << <<>>, <<PlainFile(P("/src/p", "h", <<".h">>))>> >> >>),
      InstallObj("FinalTargetPreprocessedFiles", "a", <<"dist", "bin">>,
                 << << <<>>, <<PlainFile(P("/src/p", "application", <<".ini">>))>> >> >>),
      SourcesObj("a", <<Fpy, Fpx>>, ".cpp"),
      SourcesObj("b", <<Fpx>>, ".cpp"),
      UnifiedA }

InitHeaders ==
    InitWith(HeaderObjects,
             {Readable(<<>>), Readable(<<DbRecord(Fpx, CxxCmd(Fpx), "/obj/a")>>)},
             {PlainEnv, ArtifactEnv})

SpecHeaders == InitHeaders /\ [][Next]_vars

-----------------------------------------------------------------------------
(* C12 *)

\* the rules with a header among the files they write
HeaderRules == { id \in RuleIds : \E o \in FileOutputs(RuleAt(id)) : endswith(o, ".h") }

CompileRules == { id \in RuleIds : IsCompileRule(RuleAt(id)) }

\* the files a rule names as input or extra-input, by base name
NamedInputs(r) == { basename(x) : x \in Range(r.inputs \o r.extra_inputs) \ Groups }

\* C12: in the rule set of a full run every rule H with a .h output lists
\* <includes> as an output and every compile rule C lists <includes> as an
\* extra-input without naming the header of H, whatever the number of header
\* rules and the order in which H and C were emitted.
C12_BarrierSemantics ==
    pc = "done" =>
        \A h \in HeaderRules : \A c \in CompileRules :
            /\ includes_group \in Range(RuleAt(h).outputs)
            /\ includes_group \in Range(RuleAt(c).extra_inputs)
            /\ \A o \in FileOutputs(RuleAt(h)) :
                    endswith(o, ".h") => basename(o) \notin NamedInputs(RuleAt(c))

\* a full run with two header rules, one of them emitted into the rule file
\* of a compile rule after that compile rule, the other one before
C12_Witness ==
    /\ pc = "done"
    /\ \E h1, h2 \in HeaderRules : \E c \in CompileRules :
        /\ h1[1] = c[1] /\ h2[1] = c[1]
        /\ h1[2] < c[2] /\ c[2] < h2[2]

-----------------------------------------------------------------------------
(* Calls on one rule file: BackendTupfile.rule, symlink_rule, export_shell *)

MaxCalls == 3

TupfileDir == AbsObj("a")

\* the arguments the calls of the model draw from
RuleCmds == { <<>>, TouchCmd }
RuleOutputs == { <<>>, <<P("", "x", <<".o">>)>>, <<P("", "g", <<".h">>)>> }
RuleOutputGroups == { None, installed_files }
SymlinkOutputs == { None, P("", "app", <<".ini">>) }

\* the rule file of self._get_backend_file('a'), nothing written to it yet
InitTupfile ==
    /\ pc = "calls"
    /\ run = 1
    /\ universe = {}
    /\ walked = <<>>
    /\ pos = 0
    /\ dbfile = Readable(<<>>)
    /\ env = PlainEnv
    /\ commands_db = EmptyMap
    /\ backend_files = get_backend_file(EmptyMap, "a", "", "")
    /\ manifest_entries = EmptyMap
    /\ missing_commands = EmptyMap
    /\ todo = <<>>
    /\ dq = 1
    /\ disk = EmptyMap
    /\ changed = {}

\* one call; walked keeps the calls made so far
Called(bf, call) ==
    /\ backend_files' = [backend_files EXCEPT ![TupfileDir] = bf]
    /\ walked' = Append(walked, call)
    /\ pos' = pos + 1
    /\ UNCHANGED <<pc, run, universe, dbfile, env, commands_db, manifest_entries,
                   missing_commands, todo, dq, disk, changed>>

\* backend_file.rule(cmd=..., inputs=[f], outputs=..., output_group=...)
CallRule ==
    /\ pc = "calls"
    /\ pos < MaxCalls
    /\ \E cmd \in RuleCmds, outputs \in RuleOutputs, output_group \in RuleOutputGroups,
          check_unchanged \in BOOLEAN :
        Called(rule(backend_files[TupfileDir], cmd, <<Fpx>>, <<>>, outputs, "", <<>>,
                    output_group, check_unchanged),
               [call |-> "rule", cmd |-> cmd, outputs |-> outputs])

\* backend_file.symlink_rule(source, output=..., output_group=...)
CallSymlinkRule ==
    /\ pc = "calls"
    /\ pos < MaxCalls
    /\ \E output \in SymlinkOutputs, output_group \in RuleOutputGroups :
        Called(symlink_rule(backend_files[TupfileDir], P("/src/p", "app", <<".ini">>),
                            output, output_group),
               [call |-> "symlink_rule"])

\* backend_file.export_shell()
CallExportShell ==
    /\ pc = "calls"
    /\ pos < MaxCalls
    /\ Called(export_shell(backend_files[TupfileDir]), [call |-> "export_shell"])

NextTupfile ==
    \/ CallRule
    \/ CallSymlinkRule
    \/ CallExportShell

SpecTupfile == InitTupfile /\ [][NextTupfile]_vars

-----------------------------------------------------------------------------
(* C13 *)

\* C13: a call of rule() with an empty output list and a command is rejected
\* and appends nothing, so no rule file holds a rule with a command and no
\* output file.
C13_RejectsEmptyOutputs ==
    \A id \in RuleIds : RuleAt(id).cmd # <<>> => FileOutputs(RuleAt(id)) # {}

-----------------------------------------------------------------------------
(* C14 *)

\* the content of the rule file the calls were made on
Content == backend_files[TupfileDir].fh

\* the positions of the lines of one kind
LinesOf(kind) == { i \in 1..Len(Content) : Content[i].kind = kind }

ExportsOf(var) == { i \in LinesOf("export") : Content[i].var = var }

\* the calls that emit a rule record
RuleCalls(calls) ==
    { i \in 1..Len(calls) : calls[i].call \in {"rule", "symlink_rule"} }

ExportCalls(calls) == { i \in 1..Len(calls) : calls[i].call = "export_shell" }

\* C14: the rule file holds the include-rules directive exactly once if a rule
\* was emitted, every export directive at most once, and in this order: the
\* include-rules directive, then all export directives, then all rule records.
C14_Layout ==
    /\ LinesOf("rule") # {} => Cardinality(LinesOf("include_rules")) = 1
    /\ \A v \in Range(ShellVars) : Cardinality(ExportsOf(v)) <= 1
    /\ \A i \in LinesOf("include_rules") : \A e \in LinesOf("export") : i < e
    /\ \A e \in LinesOf("export") : \A r \in LinesOf("rule") : e < r

\* C14 as the code has it: the include-rules directive is there exactly once
\* if a rule was emitted, and before every rule record; the three export
\* directives are there once if export_shell was called, as one block that
\* stands where the first call of export_shell was made: after the records of
\* the rules emitted before that call and before those emitted after it.
C14_LayoutAsEmitted ==
    /\ Cardinality(LinesOf("include_rules")) = IF RuleCalls(walked) # {} THEN 1 ELSE 0
    /\ Cardinality(LinesOf("rule")) = Cardinality(RuleCalls(walked))
    /\ \A i \in LinesOf("include_rules") : \A r \in LinesOf("rule") : i < r
    /\ \A v \in Range(ShellVars) :
            Cardinality(ExportsOf(v)) = IF ExportCalls(walked) # {} THEN 1 ELSE 0
    /\ ExportCalls(walked) # {} =>
            LET first == CHOOSE c \in ExportCalls(walked) :
                            \A d \in ExportCalls(walked) : c <= d
                before == Cardinality({ c \in RuleCalls(walked) : c < first })
                e == CHOOSE x \in ExportsOf(ShellVars[1]) : TRUE
            IN /\ \A k \in 1..Len(ShellVars) : ExportsOf(ShellVars[k]) = {e + k - 1}
               /\ Cardinality({ r \in LinesOf("rule") : r < e }) = before

\* export_shell called twice after a rule was emitted
C14_Witness ==
    /\ Cardinality(ExportCalls(walked)) >= 2
    /\ \E r \in RuleCalls(walked) : \A c \in ExportCalls(walked) : r < c
    /\ \E r \in LinesOf("rule") : \A e \in LinesOf("export") : r < e

-----------------------------------------------------------------------------
(* C15 *)

\* the rule files persisted so far, in the first run on an empty objdir
PersistedRuleFiles == { od \in DOMAIN backend_files : (od \o "/Tupfile") \in DOMAIN disk }

\* the deferred tasks consume_finished has not processed yet, per directory
RemainingDelayed(od) ==
    LET n == Len(backend_files[od].delayed_generated_files)
    IN IF pc = "walk" THEN n
       ELSE IF pc = "drain" /\ od \in Range(todo)
       THEN IF od = Head(todo) THEN n - (dq - 1) ELSE n
       ELSE 0

\* C15 (first half): no rule file is persisted while a build object remains
\* to be walked.
C15_NothingPersistedDuringWalk ==
    (run = 1 /\ pc = "walk") => PersistedRuleFiles = {}

\* C15: no rule file is persisted while a build object remains to be walked
\* or a deferred task of any directory remains to be processed.
C15_PersistedAtFinalFlush ==
    (run = 1 /\ PersistedRuleFiles # {}) =>
        /\ pc # "walk"
        /\ \A od \in DOMAIN backend_files : RemainingDelayed(od) = 0

-----------------------------------------------------------------------------
(* Runs on a build graph with install mappings *)

\* files of install mappings: patterns with the paths the file finder returns
WildAbsLast ==
    InstallFile("AbsolutePath", FALSE, P("/abs/res", "*", <<".js">>),
                <<"", "abs", "res", "*.js">>, <<P("", "m", <<".js">>)>>, "")
WildAbsMid ==
    InstallFile("AbsolutePath", FALSE, P("/abs/t*", "n", <<".js">>),
                <<"", "abs", "t*", "n.js">>, <<P("t1", "n", <<".js">>)>>, "")
WildTopMid ==
    InstallFile("SourcePath", TRUE, P("/src/t*", "*", <<".js">>),
                <<"", "src", "t*", "*.js">>, <<P("t1", "n", <<".js">>)>>, "")
WildRelLast ==
    InstallFile("SourcePath", FALSE, P("/src/a/res", "*", <<".js">>),
                <<"", "src", "a", "res", "*.js">>,
                <<P("", "m", <<".js">>), P("", "n", <<".js">>)>>, "")
WildRelMid ==
    InstallFile("SourcePath", FALSE, P("/src/a/t*", "*", <<".js">>),
                <<"", "src", "a", "t*", "*.js">>,
                <<P("t1", "n", <<".js">>), P("t2", "o", <<".js">>)>>, "")
GeneratedHeader ==
    InstallFile("ObjDirPath", FALSE, P("/obj/a", "gen", <<".h">>), <<>>, <<>>, "a")

\* one install mapping with all its files in the destination itself
Install(cls, reldir, target, files) == InstallObj(cls, reldir, target, << << <<>>, files >> >>)

InstallObjects ==
    { Install("FinalTargetFiles", "a", <<"dist", "bin">>,
              <<PlainFile(P("/src/p", "app", <<".ini">>))>>),
      Install("FinalTargetFiles", "a", <<"dist", "nowhere">>,
              <<PlainFile(P("/src/p", "app", <<".ini">>))>>),
      Install("FinalTargetFiles", "b", <<"dist">>,
              <<PlainFile(P("/src/p", "app", <<".ini">>))>>),
      Install("FinalTargetFiles", "b", <<"_tests", "h">>,
              <<PlainFile(P("/src/p", "app", <<".ini">>))>>),
      Install("ObjdirFiles", "a", <<"d">>, <<GeneratedHeader>>),
      Install("FinalTargetFiles", "a", <<"dist", "bin">>,
              <<PlainFile(P("/src/p", "p", <<".txt">>)), WildAbsMid>>),
      Install("FinalTargetFiles", "b", <<"dist", "bin">>, <<WildTopMid>>),
      Install("FinalTargetFiles", "a", <<"dist", "bin">>, <<WildRelMid>>),
      Install("FinalTargetFiles", "a", <<"dist", "bin">>, <<WildAbsLast, WildRelLast>>),
      SourcesObj("a", <<Fpy, Fpx>>, ".cpp"),
      Linkables["E"] }

InitInstall == InitWith(InstallObjects, {Readable(<<>>)}, {PlainEnv, ArtifactEnv})

SpecInstall == InitInstall /\ [][Next]_vars

-----------------------------------------------------------------------------
(* C16 *)

\* the rule records of a rule file, in order; none if the file does not exist
RuleSeq(bfs, od) ==
    IF od \in DOMAIN bfs THEN SelectSeq(bfs[od].fh, LAMBDA l : l.kind = "rule") ELSE <<>>

\* the backend as it was before the i-th object was delivered
Before(i) == Replay(FreshState, SubSeq(Delivered, 1, i - 1))

IsInstallMapping(obj) == obj.cls \in {"FinalTargetFiles", "ObjdirFiles"}

\* an install mapping, not one of objdir files, whose destination lies under
\* none of the recognized roots
UnrecognizedRoot(obj) ==
    /\ IsInstallMapping(obj)
    /\ obj.cls # "ObjdirFiles"
    /\ ~ \E r \in InstallRoots : IsPrefix(r, obj.install_target)

\* C16: consuming an install mapping, other than one of objdir files, whose
\* destination lies under none of the recognized roots aborts the run, and no
\* rule has been appended to any rule file for it.
C16_UnrecognizedRootFatal ==
    run = 1 =>
        \A i \in 1..pos :
            UnrecognizedRoot(Delivered[i]) =>
                /\ pc = "error"
                /\ i = pos
                /\ \A od \in DOMAIN backend_files \cup DOMAIN Before(i).bfs :
                        RuleSeq(backend_files, od) = RuleSeq(Before(i).bfs, od)

\* a run that aborted on such a mapping after rules had been emitted for an
\* earlier object
C16_Witness ==
    /\ pc = "error"
    /\ pos > 1
    /\ UnrecognizedRoot(Delivered[pos])
    /\ RuleIds # {}

-----------------------------------------------------------------------------
(* C17 *)

\* the files of an install mapping, over all destination sub-directories
FilesOf(obj) == Flat([k \in 1..Len(obj.files) |-> obj.files[k][2]])

\* a pattern with a wildcard in a path segment other than the final one
MultiSegment(f) ==
    /\ f.cls # "ObjDirPath"
    /\ \E k \in 1..(Len(f.segs) - 1) : f.segs[k] \in StarSegs

\* absolute and top-source-relative patterns
IsAbsolute(f) == f.topsrc \/ f.cls = "AbsolutePath"

\* an install mapping consume_object passes on to the loop over its files
Installable(obj) ==
    /\ IsInstallMapping(obj)
    /\ ~UnrecognizedRoot(obj)
    /\ ~IsPrefix(<<"_tests">>, obj.install_target)

\* the rules that install a file the pattern f stands for, or f itself
RulesForPattern(f) ==
    { id \in RuleIds :
        /\ IsSymlinkRule(RuleAt(id))
        /\ \/ RuleAt(id).inputs[1] = f.full_path
           \/ \E k \in 1..Len(f.found) :
                RuleAt(id).inputs[1]
                    = P(JoinDir(prefix_of(f.segs), f.found[k].dir), f.found[k].stem,
                        f.found[k].ext) }

-----------------------------------------------------------------------------
(* C18 *)

\* the link rules of a program or shared library
LinkRulesOf(n) == RulesWriting(Linkables[n].objdir, Linkables[n].program)

\* the database holds no entry for the link target
Unresolved(n) ==
    <<join(Linkables[n].objdir, Linkables[n].program), Linkables[n].objdir>>
        \notin DOMAIN commands_db

\* C18: a link target the database has no entry for gets a placeholder no-op
\* rule in the deferred phase, and a missing-command counter is incremented
\* for it, as for an unresolved compile command.
C18_UnresolvedLinkCounted ==
    \A n \in LinkTargets :
        Unresolved(n) =>
            \A id \in LinkRulesOf(n) :
                /\ RuleAt(id).cmd = TouchCmd
                /\ Get(missing_commands, Linkables[n].cls, 0) >= 1

\* C18 as the code has it: a link target the database has no entry for gets
\* a link rule with the default linker command: ld.gold -o %o, then the
\* objects and libraries that are the inputs of the rule, then the system
\* libraries; no counter is incremented for it: the counters hold the
\* unresolved compile commands only.
C18_DefaultLinkCommand ==
    /\ \A n \in LinkTargets :
        Unresolved(n) =>
            \A id \in LinkRulesOf(n) :
                LET cmd == RuleAt(id).cmd
                    ins == RuleAt(id).inputs
                    libs == FirstOccurrences(DeclaredSystemLibs(Linkables[n]))
                IN /\ Len(cmd) = 3 + Len(ins) + Len(libs)
                   /\ SubSeq(cmd, 1, 3) = <<Tok("ld.gold"), Tok("-o"), Tok("%o")>>
                   /\ \A j \in 1..Len(ins) :
                        ins[j] = IF endswith(cmd[3 + j], ".a")
                                 THEN addext(cmd[3 + j], ".desc") ELSE cmd[3 + j]
                   /\ SubSeq(cmd, 4 + Len(ins), Len(cmd)) = libs
    /\ \A key \in CounterKeys : Get(missing_commands, key, 0) = ExpectedMisses(key)
    /\ DOMAIN missing_commands \subseteq CounterKeys

\* a full run that linked E and libS without a database entry for either,
\* E from objects and libraries, with a compile command missing as well
C18_Witness ==
    /\ pc = "done"
    /\ Unresolved("E") /\ Unresolved("libS")
    /\ LinkRulesOf("libS") # {}
    /\ \E id \in LinkRulesOf("E") : Len(RuleAt(id).inputs) >= 3
    /\ Get(missing_commands, "Sources", 0) >= 1

-----------------------------------------------------------------------------
(* Runs on a build graph with link targets of every kind *)

ProgramObjects ==
    { LinkObj("SimpleProgram", "sp", "c", P("", "sp", <<>>), <<>>, <<>>),
      LinkObj("HostProgram", "hp", "d", P("", "hp", <<>>), <<>>, <<>>),
      LinkObj("HostSimpleProgram", "hsp", "d", P("", "hsp", <<>>), <<>>, <<>>),
      Linkables["E"],
      Linkables["libA"],
      Linkables["libT"],
      SourcesObj("a", <<Fpy, Fpx>>, ".cpp") }

InitPrograms == InitWith(ProgramObjects, {Readable(<<>>), Readable(<<LinkRecordE>>)}, {PlainEnv})

SpecPrograms == InitPrograms /\ [][Next]_vars

-----------------------------------------------------------------------------
(* C19 *)

\* a link target of a kind the backend writes no link or archive rule for
Unsupported(obj) ==
    /\ isinstance(obj, "Linkable")
    /\ obj.cls \notin {"Program", "SharedLibrary", "StaticLibrary"}

\* the no-op rules that touch the output of a link target
TouchRulesOf(obj) ==
    { id \in RuleIds : /\ id[1] = obj.objdir
                       /\ RuleAt(id).cmd = TouchCmd
                       /\ obj.lib_name \in Range(RuleAt(id).outputs) }

\* C19: by the end of the run every visited link target that is no
\* executable, shared library or static library has exactly one no-op rule
\* that touches its output; the run has not failed on it.
C19_UnsupportedTouched ==
    /\ pc = "error" => ~Unsupported(Delivered[pos])
    /\ (run = 1 /\ pc = "done") =>
            \A i \in 1..pos :
                Unsupported(Delivered[i]) => Cardinality(TouchRulesOf(Delivered[i])) = 1

\* C19 as the code has it: a simple program or a host program is neither
\* deferred nor given any rule, at any point of the run.
C19_UnsupportedIgnored ==
    \A i \in 1..pos :
        LET obj == Delivered[i]
        IN (Unsupported(obj) /\ ~isinstance(obj, "StaticLibrary")) =>
            /\ pc # "error"
            /\ \A id \in RuleIds : obj.lib_name \notin Range(RuleAt(id).outputs)
            /\ \A od \in DOMAIN backend_files :
                    obj \notin Range(backend_files[od].delayed_generated_files)

-----------------------------------------------------------------------------
(* Runs against database files that are missing or malformed *)

\* a database file that is missing, unreadable or no JSON at all
Unreadable == [readable |-> FALSE, records |-> <<>>]

\* a record without its command
RecordWithoutCommand == [file |-> Fpy, directory |-> "/obj/a"]

LoadDbFiles ==
    { Unreadable,
      Readable(<<>>),
      Readable(<< DbRecord(Fpx, CxxCmd(Fpx), "/obj/a") >>),
      Readable(<< RecordWithoutCommand, DbRecord(Fpx, CxxCmd(Fpx), "/obj/a") >>),
      Readable(<< DbRecord(Fpx, CxxCmd(Fpx), "/obj/a"), RecordWithoutCommand,
                  DbRecord(Fpz, <<Tok("gcc"), Tok("-c"), Fpz>>, "/obj/a") >>) }

LoadObjects ==
    { SourcesObj("a", <<Fpy, Fpx>>, ".cpp"),
      SourcesObj("a", <<Fpz>>, ".c"),
      SourcesObj("b", <<Fpx>>, ".cpp"),
      UnifiedA,
      Linkables["E"] }

InitLoad == InitWith(LoadObjects, LoadDbFiles, {PlainEnv})

SpecLoad == InitLoad /\ [][Next]_vars

-----------------------------------------------------------------------------
(* C20 *)

\* the database file is missing, unreadable or malformed
Malformed(file) ==
    \/ ~file.readable
    \/ \E i \in 1..Len(file.records) :
            ~({"file", "command", "directory"} \subseteq DOMAIN file.records[i])

\* C20: when the database file is missing, unreadable or malformed, also as
\* an array with a record that lacks a field, the backend starts all the same
\* and its command database is empty, so that every lookup is a miss.
C20_LoadTolerant ==
    Malformed(dbfile) =>
        /\ commands_db = EmptyMap
        /\ \A id \in RuleIds : IsCompileRule(RuleAt(id)) => RuleAt(id).cmd = TouchCmd

\* C20 as the code has it: the records before the first one that lacks a
\* field are in the command database, the ones after it are not.
C20_LoadedUpToFirstBadRecord ==
    LET recs == dbfile.records
        bad == { i \in 1..Len(recs) :
                    ~({"file", "command", "directory"} \subseteq DOMAIN recs[i]) }
        good == { i \in 1..Len(recs) : \A b \in bad : i < b }
    IN /\ ~dbfile.readable => commands_db = EmptyMap
       /\ DOMAIN commands_db = { <<recs[i].file, recs[i].directory>> : i \in good }


-----------------------------------------------------------------------------
(* Runs with defines, preprocessed installs and generated files *)

AppIni == PlainFile(P("/src/a", "application", <<".ini">>))
StyleCssIn == PlainFile(P("/src/a", "style", <<".css", ".in">>))

PreprocessedInstall(reldir, files) ==
    InstallObj("FinalTargetPreprocessedFiles", reldir, <<"dist", "bin">>,
               << << <<>>, files >> >>)

\* two DefineSets, an empty one and a host one for directory a, two
\* preprocessed installs, and generated files, application.ini.h among them
PreprocessObjects ==
    { DefinesObj("Defines", "a", <<Tok("-DA=1")>>),
      DefinesObj("Defines", "a", <<Tok("-DB=2"), Tok("-DNAME=a b")>>),
      DefinesObj("Defines", "a", <<>>),
      DefinesObj("HostDefines", "a", <<Tok("-DH=1")>>),
      DefinesObj("Defines", "b", <<Tok("-DC=3")>>),
      PreprocessedInstall("a", <<AppIni>>),
      PreprocessedInstall("a", <<StyleCssIn>>),
      PreprocessedInstall("b", <<AppIni>>),
      GeneratedObj("a", "gen.py", "main", <<application_ini_h>>,
                   <<P("", "application", <<".ini">>)>>, <<>>),
      GeneratedObj("a", "gen.py", "main", <<P("", "g", <<".h">>)>>, <<>>, <<>>),
      GeneratedObj("a", "", "", <<application_ini_h>>, <<>>, <<>>),
      GeneratedObj("a", "gen.py", "main",
                   <<application_ini_h, P("", "buildid", <<".h">>)>>, <<>>, <<>>) }

InitPreprocess == InitWith(PreprocessObjects, {Readable(<<>>)}, {PlainEnv, ArtifactEnv})

SpecPreprocess == InitPreprocess /\ [][Next]_vars

-----------------------------------------------------------------------------
(* C21: the defines on the preprocess rules *)

IsPreprocessRule(r) ==
    /\ Len(r.cmd) >= Len(py_action("preprocessor"))
    /\ SubSeq(r.cmd, 1, Len(py_action("preprocessor"))) = py_action("preprocessor")

PreprocessRulesOf(od) == { id \in RuleIds : id[1] = od /\ IsPreprocessRule(RuleAt(id)) }

\* the defines the DefineSet objects of od delivered so far contribute
ContributedDefines(od) ==
    UNION { Range(Delivered[i].defines) :
            i \in { j \in 1..pos : Delivered[j].cls = "Defines"
                                   /\ Delivered[j].objdir = od } }

\* C21: once the walk is over, the command of every preprocess rule of a
\* directory carries every define that any DefineSet object of the directory
\* contributed, whatever the visit order and the number of DefineSet objects
C21_PreprocessCarriesDefines ==
    pc \in {"drain", "done"} =>
        \A id \in RuleIds :
            IsPreprocessRule(RuleAt(id)) =>
                \A d \in ContributedDefines(id[1]) :
                    shell_quote(d) \in Range(RuleAt(id).cmd)


-----------------------------------------------------------------------------
(* C22: application.ini.h *)

\* a generated-file task with application.ini.h among its outputs that
\* consume_object does not skip
DeferredTask(obj) ==
    /\ obj.cls = "GeneratedFile"
    /\ application_ini_h \in Range(obj.outputs)
    /\ \A i \in 1..Len(obj.outputs) : ~skipped_output(obj.outputs[i])

\* the task has a generating script, so that _process_generated_file writes a rule
Scripted(obj) ==
    obj.script # "" /\ obj.method # "" /\ obj.relobjdir \notin skip_directories

AppIniRules(od) ==
    { id \in RuleIds : id[1] = od /\ application_ini_h \in Range(RuleAt(id).outputs) }

DeferredTasks(od) ==
    SelectSeq(Delivered, LAMBDA o : o.objdir = od /\ DeferredTask(o))

\* C22: a generated-file task with application.ini.h among its outputs that is
\* not skipped writes no rule during the walk and sits on the deferred queue of
\* its rule file, in visit order; its rule (it has one if it has a generating
\* script) is written in the deferred phase, exactly once, and stands after
\* every preprocess rule of the rule file, whatever the visit order
C22_ManualOrdering ==
    \A od \in DOMAIN backend_files :
        /\ pc = "walk" => AppIniRules(od) = {}
        /\ pc = "walk" =>
              SelectSeq(backend_files[od].delayed_generated_files,
                        LAMBDA o : o.cls = "GeneratedFile")
                = DeferredTasks(od)
        /\ pc = "done" =>
              Cardinality(AppIniRules(od))
                = Len(SelectSeq(DeferredTasks(od), Scripted))
        /\ \A a \in AppIniRules(od) :
              \A p \in PreprocessRulesOf(od) : p[2] < a[2]

\* the task was visited before the preprocessed install of its directory, and
\* its rule stands after the preprocess rule all the same
C22_Witness ==
    /\ pc = "done"
    /\ \E i, j \in 1..pos :
          /\ i < j
          /\ DeferredTask(Delivered[i]) /\ Scripted(Delivered[i])
          /\ Delivered[j].cls = "FinalTargetPreprocessedFiles"
          /\ Delivered[j].objdir = Delivered[i].objdir
          /\ AppIniRules(Delivered[i].objdir) # {}
          /\ PreprocessRulesOf(Delivered[i].objdir) # {}


-----------------------------------------------------------------------------
(* Runs with sources of known and of unknown suffixes *)

Fasm == P("/src/p", "x", <<".asm">>)

AsmCmd == << Tok("yasm"), Tok("-o"), Tok("/dev/null"), Fasm >>

CommandObjects ==
    { SourcesObj("a", <<Fasm>>, ".asm"),
      SourcesObj("b", <<Fpy, Fasm>>, ".asm"),
      Ctx("HostSources", "b") @@ [files |-> <<Fasm>>, canonical_suffix |-> ".asm"],
      SourcesObj("a", <<Fpx>>, ".cpp"),
      SourcesObj("a", <<Fpz>>, ".c"),
      UnifiedA,
      Linkables["E"] }

CommandDbFiles ==
    { Readable(<<>>),
      Readable(<< DbRecord(Fasm, AsmCmd, "/obj/a"), DbRecord(Fpx, CxxCmd(Fpx), "/obj/a"),
                  LinkRecordE >>) }

InitCommands == InitWith(CommandObjects, CommandDbFiles, {PlainEnv, IpdlEnv})

SpecCommands == InitCommands /\ [][Next]_vars

-----------------------------------------------------------------------------
(* C23: sources of an unknown suffix *)

\* the suffixes suffix_map of _write_sources knows
KnownSuffixes == {".s", ".c", ".m", ".mm", ".cpp", ".rs", ".S"}

UnknownSuffix(obj) ==
    isinstance(obj, "BaseSources") /\ obj.canonical_suffix \notin KnownSuffixes

SourcesOf(bfs, od) == IF od \in DOMAIN bfs THEN bfs[od].sources ELSE <<>>

\* C23: a translation-unit set whose canonical suffix has no known compiler
\* causes no compile rule to be emitted and no object name to be appended to
\* the source closure of its rule file
C23_UnknownSuffixNotCompiled ==
    \A n \in 1..pos :
        LET obj == Delivered[n]
            od == obj.objdir
        IN UnknownSuffix(obj) =>
              /\ RuleSeq(Before(n + 1).bfs, od) = RuleSeq(Before(n).bfs, od)
              /\ SourcesOf(Before(n + 1).bfs, od) = SourcesOf(Before(n).bfs, od)

\* C23, as the code has it: a translation-unit set of an unknown suffix is
\* compiled like any other; each of its files, in sorted order, gets one
\* compile rule labelled "Compiling %b" whose command is the database entry of
\* the file or the placeholder touch command, and its object name is appended
\* to the source closure
C23_UnknownSuffixCompiled ==
    \A n \in 1..pos :
        LET obj == Delivered[n]
            od == obj.objdir
            before == Before(n).bfs
            after == Before(n + 1).bfs
        IN UnknownSuffix(obj) =>
              LET fs == sorted_files(obj.files)
                  old == Len(RuleSeq(before, od))
              IN /\ Len(RuleSeq(after, od)) = old + Len(fs)
                 /\ SubSeq(RuleSeq(after, od), 1, old) = RuleSeq(before, od)
                 /\ \A k \in 1..Len(fs) :
                       LET r == RuleSeq(after, od)[old + k]
                       IN /\ IsCompileRule(r)
                          /\ r.inputs = <<fs[k]>>
                          /\ r.display = "o Compiling %b"
                          /\ r.cmd = IF Usable(fs[k], od) THEN commands_db[<<fs[k], od>>]
                                     ELSE TouchCmd
                 /\ SourcesOf(after, od)
                      = SourcesOf(before, od) \o [k \in 1..Len(fs) |-> ObjectName(fs[k])]

\* sources of an unknown suffix were compiled, with a command of the database
\* and with the placeholder command
C23_Witness ==
    /\ pc = "done"
    /\ \E n, m \in 1..pos :
          /\ UnknownSuffix(Delivered[n]) /\ UnknownSuffix(Delivered[m])
          /\ \E f \in Range(Delivered[n].files) : Usable(f, Delivered[n].objdir)
          /\ \E f \in Range(Delivered[m].files) : ~Usable(f, Delivered[m].objdir)
          /\ \E id \in RuleIds : RuleAt(id).display = "o Compiling %b"


-----------------------------------------------------------------------------
(* C24: the command database after loading *)

\* the compile rules whose command came from the entry of the first
\* constituent of a unified source
FallbackResolved ==
    { id \in RuleIds :
        LET r == RuleAt(id)
        IN /\ IsCompileRule(r)
           /\ UnifiedInputsOf(r) # <<>>
           /\ <<r.inputs[1], id[1]>> \notin DOMAIN commands_db
           /\ <<UnifiedInputsOf(r)[1], id[1]>> \in DOMAIN commands_db
           /\ r.cmd = commands_db[<<UnifiedInputsOf(r)[1], id[1]>>] }

\* the link rules whose command came from an entry with the placeholder
PlaceholderResolved ==
    { id \in RuleIds :
        LET r == RuleAt(id)
            key == <<join(id[1], r.outputs[1]), id[1]>>
        IN /\ IsLinkRule(r)
           /\ key \in DOMAIN commands_db
           /\ ObjsPlaceholder \in Range(commands_db[key])
           /\ r.cmd # TouchCmd }

\* C24: no step of the walk or of the deferred phase adds, removes or changes
\* an entry of the command database or the argument vector of an entry: the
\* database is the same after every step, so a lookup of a key returns the
\* same argument vector at any two points of a run
C24_DbReadOnly == [][commands_db' = commands_db]_vars

\* C24, on the states: the database is what was loaded from the file
C24_DbAsLoaded == commands_db = load_commands_db(dbfile)

\* a run that resolved a compile rule through the unified fallback, wrote a
\* placeholder compile rule and a link rule from an entry with the
\* placeholder, and left the database as loaded
C24_Witness ==
    /\ pc = "done"
    /\ FallbackResolved # {}
    /\ PlaceholderResolved # {}
    /\ \E id \in RuleIds : IsCompileRule(RuleAt(id)) /\ RuleAt(id).cmd = TouchCmd
    /\ commands_db = load_commands_db(dbfile)
    /\ commands_db # EmptyMap


-----------------------------------------------------------------------------
(* C25: the missing-command counters *)

\* the keys of the counters that are object kinds; the others are suffixes
KindKeys == { k \in DOMAIN missing_commands : k \in DOMAIN Bases \cup {"NoneType"} }

RECURSIVE SumOver(_, _)
SumOver(counts, keys) ==
    IF keys = {} THEN 0
    ELSE LET k == CHOOSE x \in keys : TRUE
         IN counts[k] + SumOver(counts, keys \ {k})

\* the compile rules written with the placeholder touch command
TouchCompileRules ==
    { id \in RuleIds : IsCompileRule(RuleAt(id)) /\ RuleAt(id).cmd = TouchCmd }

\* C25: at every point of a run the per-suffix counters and the per-kind
\* counters of missing commands have the same sum, the number of compile
\* rules written with the placeholder touch command; a compile rule whose
\* command came from the database is counted nowhere
C25_CountersConsistent ==
    /\ SumOver(missing_commands, DOMAIN missing_commands \ KindKeys)
         = Cardinality(TouchCompileRules)
    /\ SumOver(missing_commands, KindKeys) = Cardinality(TouchCompileRules)

\* placeholder rules and resolved rules were written, for Sources,
\* UnifiedSources and the IPDL sources, which have no build object
C25_Witness ==
    /\ pc = "done"
    /\ Cardinality(TouchCompileRules) >= 3
    /\ \E id \in RuleIds : IsCompileRule(RuleAt(id)) /\ RuleAt(id).cmd # TouchCmd
    /\ {"NoneType", "Sources", ".cpp", ".asm"} \subseteq DOMAIN missing_commands
    /\ Cardinality(DOMAIN missing_commands \ KindKeys) >= 2


-----------------------------------------------------------------------------
(* C26: the finish phase *)

\* the rules of a rule file that the deferred phase writes, in order
DeferredRules(od) ==
    SelectSeq(RuleSeq(backend_files, od),
              LAMBDA r : \/ IsLinkRule(r)
                         \/ IsArchiveRule(r)
                         \/ application_ini_h \in Range(r.outputs))

\* the deferred tasks that write a rule when they are processed
WritesRule(obj) == obj.cls = "GeneratedFile" => Scripted(obj)

\* the first output of the rule a deferred task writes
DeferredOutput(obj) ==
    IF obj.cls = "GeneratedFile" THEN obj.outputs[1]
    ELSE IF isinstance(obj, "Program") THEN obj.program
    ELSE IF isinstance(obj, "SharedLibrary") THEN obj.lib_name
    ELSE addext(obj.lib_name, ".desc")

\* the rule files in ascending order of their output directory
Ascending == SortedStrings(DOMAIN backend_files)

\* the rule files visited so far by the finish phase
Visited == Len(Ascending) - Len(todo)

\* how many tasks of the queue of the k-th rule file have been processed
Processed(k) ==
    IF k <= Visited THEN Len(backend_files[Ascending[k]].delayed_generated_files)
    ELSE IF k = Visited + 1 THEN dq - 1
    ELSE 0

TupfileOf(od) == od \o "/Tupfile"

\* C26: the finish phase visits every rule file of the run, the one of the
\* IPDL handler included, once and in ascending order of the output
\* directories; the deferred tasks of a rule file are processed once each in
\* the order of the queue; a rule file is closed when its queue is done, and
\* what was closed is not written to again; at the end every rule file is
\* closed
C26_DrainAndFlush ==
    pc \in {"drain", "done"} =>
        /\ Visited >= 0
        /\ todo = SubSeq(Ascending, Visited + 1, Len(Ascending))
        /\ pc = "done" => todo = <<>>
        /\ env.ipdl # <<>> => AbsObj("ipc/ipdl") \in DOMAIN backend_files
        /\ \A k \in 1..Len(Ascending) :
              LET od == Ascending[k]
                  queue == backend_files[od].delayed_generated_files
                  tasks == SelectSeq(SubSeq(queue, 1, Processed(k)), WritesRule)
              IN /\ Processed(k) <= Len(queue)
                 /\ [i \in 1..Len(DeferredRules(od)) |-> DeferredRules(od)[i].outputs[1]]
                      = [i \in 1..Len(tasks) |-> DeferredOutput(tasks[i])]
                 /\ k <= Visited =>
                       /\ TupfileOf(od) \in DOMAIN disk
                       /\ disk[TupfileOf(od)] = backend_files[od].fh
                 /\ (k > Visited /\ run = 1) => TupfileOf(od) \notin DOMAIN disk

\* the finish phase is over for three rule files, one of them with two
\* deferred tasks and one created by the IPDL handler
C26_Witness ==
    /\ pc = "done"
    /\ Len(Ascending) >= 3
    /\ AbsObj("ipc/ipdl") \in DOMAIN backend_files
    /\ \E od \in DOMAIN backend_files :
          /\ Len(backend_files[od].delayed_generated_files) >= 2
          /\ Len(DeferredRules(od)) >= 2
    /\ \A od \in DOMAIN backend_files : disk[TupfileOf(od)] = backend_files[od].fh


-----------------------------------------------------------------------------
(* The link plan over library graphs of any shape *)

\* the depth at which the interpreter gives up a recursion (RecursionError)
RecursionLimit == 4

LimitedPlan == [libs |-> <<>>, system_libs |-> <<>>, raised |-> FALSE]

\* write_shared_and_system_libs with the depth of the recursion counted: a
\* call beyond the recursion limit raises
RECURSIVE write_shared_and_system_libs_limited(_, _, _, _)
RECURSIVE wssl_each_limited(_, _, _, _)
wssl_each_limited(table, plan, ls, depth) ==
    IF ls = <<>> \/ plan.raised THEN plan
    ELSE LET l == table[Head(ls)]
             plan1 == IF isinstance(l, "StaticLibrary") \/ isinstance(l, "RustLibrary")
                      THEN write_shared_and_system_libs_limited(table, plan, l, depth + 1)
                      ELSE [plan EXCEPT !.libs = Append(@, LibPath(l))]
         IN wssl_each_limited(table, plan1, Tail(ls), depth)

write_shared_and_system_libs_limited(table, plan, lib, depth) ==
    IF depth > RecursionLimit THEN [plan EXCEPT !.raised = TRUE]
    ELSE LET plan1 == wssl_each_limited(table, plan, lib.linked_libraries, depth)
         IN IF plan1.raised THEN plan1
            ELSE [plan1 EXCEPT !.system_libs = @ \o lib.linked_system_libs]

\* one iteration of "for lib in obj.linked_libraries" of _process_program
link_one_limited(table, plan, obj, lib) ==
    LET listed == [plan EXCEPT !.libs = Append(@, LibPath(lib))]
    IN IF isinstance(obj, "Library")
       THEN IF isinstance(lib, "RustLibrary") THEN plan
            ELSE IF isinstance(lib, "StaticLibrary")
            THEN IF isinstance(obj, "SharedLibrary")
                 THEN write_shared_and_system_libs_limited(table, listed, lib, 1)
                 ELSE listed
            ELSE IF isinstance(lib, "SharedLibrary") THEN listed
            ELSE plan
       ELSE IF isinstance(obj, "Program") \/ isinstance(obj, "SimpleProgram")
       THEN IF isinstance(lib, "StaticLibrary")
            THEN write_shared_and_system_libs_limited(table, listed, lib, 1)
            ELSE listed
       ELSE plan

RECURSIVE link_each_limited(_, _, _, _)
link_each_limited(table, plan, obj, ls) ==
    IF ls = <<>> \/ plan.raised THEN plan
    ELSE link_each_limited(table, link_one_limited(table, plan, obj, table[Head(ls)]),
                           obj, Tail(ls))

\* libs and system_libs as _process_program has them before it emits
link_plan_limited(table, obj) ==
    LET plan == link_each_limited(table, LimitedPlan, obj, obj.linked_libraries)
    IN IF plan.raised THEN plan
       ELSE [plan EXCEPT !.system_libs = @ \o obj.linked_system_libs]

\* a linkable of a library graph
Node(cls, name, libs) ==
    LinkObj(cls, name, "a", P("", name, <<>>), libs, <<Tok("-l" \o name)>>)

\* library graphs: a program, a shared library and three static libraries;
\* among the graphs are trees, graphs where Z is reached along several paths,
\* and graphs where static libraries depend on each other or on themselves
LinkGraphs ==
    { [ E |-> Node("Program", "E", e), S |-> Node("SharedLibrary", "S", <<"Z">>),
        X |-> Node("StaticLibrary", "X", x), Y |-> Node("StaticLibrary", "Y", y),
        Z |-> Node("StaticLibrary", "Z", z) ] :
      e \in { <<"X">>, <<"X", "Y", "S">> },
      x \in { <<>>, <<"Y">>, <<"Y", "Z">>, <<"X">> },
      y \in { <<>>, <<"Z">>, <<"Z", "S">>, <<"X">> },
      z \in { <<>>, <<"X">> } }

InitLinkPlan ==
    /\ pc = "plan"
    /\ run = 1
    /\ universe \in LinkGraphs
    /\ walked = <<>>
    /\ pos = 0
    /\ dbfile = Readable(<<>>)
    /\ env = PlainEnv
    /\ commands_db = EmptyMap
    /\ backend_files = EmptyMap
    /\ manifest_entries = EmptyMap
    /\ missing_commands = EmptyMap
    /\ todo = <<>>
    /\ dq = 1
    /\ disk = EmptyMap
    /\ changed = {}

\* _process_program builds the lists of one linkable of the graph; walked
\* keeps the linkables done so far with their lists
PlanLink ==
    /\ pc = "plan"
    /\ pos < MaxObjs
    /\ \E n \in DOMAIN universe \ { walked[i].target : i \in 1..Len(walked) } :
        LET plan == link_plan_limited(universe, universe[n])
        IN /\ walked' = Append(walked, [target |-> n, plan |-> plan])
           /\ pc' = IF plan.raised THEN "error" ELSE "plan"
    /\ pos' = pos + 1
    /\ UNCHANGED <<run, universe, dbfile, env, commands_db, backend_files,
                   manifest_entries, missing_commands, todo, dq, disk, changed>>

NextLinkPlan == PlanLink

SpecLinkPlan == InitLinkPlan /\ [][NextLinkPlan]_vars

-----------------------------------------------------------------------------
(* C27: the link plan terminates *)

\* the static libraries a static library descends into, directly
StaticEdges(table) ==
    { <<a, b>> \in (DOMAIN table) \X (DOMAIN table) :
        /\ isinstance(table[a], "StaticLibrary")
        /\ isinstance(table[b], "StaticLibrary")
        /\ b \in Range(table[a].linked_libraries) }

RECURSIVE ReachableIn(_, _, _)
ReachableIn(edges, from, steps) ==
    IF steps = 0 THEN from
    ELSE ReachableIn(edges, from \cup { e[2] : e \in { d \in edges : d[1] \in from } },
                     steps - 1)

\* some static library depends on itself, directly or through others
Cyclic(table) ==
    \E a \in DOMAIN table :
        \E e \in StaticEdges(table) :
            e[1] = a /\ a \in ReachableIn(StaticEdges(table), {e[2]},
                                          Cardinality(DOMAIN table))

\* C27: for every library graph, those where static libraries depend on each
\* other included, the flattening of the static-library closure of a link
\* target finishes with a library list and a system-library list
C27_LinkPlanTerminates ==
    pc \in {"plan", "error"} =>
        \A i \in 1..Len(walked) : ~walked[i].plan.raised

\* what does hold: on a graph without a cycle among the static libraries the
\* flattening finishes, also when a library is reached along several paths,
\* and a flattening that does not finish had a cycle to descend into
C27_AcyclicTerminates ==
    pc \in {"plan", "error"} =>
        \A i \in 1..Len(walked) :
            /\ walked[i].plan.raised => Cyclic(universe)
            /\ ~Cyclic(universe) =>
                  LET plan == link_plan(universe, universe[walked[i].target])
                  IN /\ walked[i].plan.libs = plan.libs
                     /\ walked[i].plan.system_libs = plan.system_libs


-----------------------------------------------------------------------------
(* The expansion loop of CompileDBBackend.consume_finished, pass by pass *)

\* the length up to which the model follows a growing argument vector
MaxWords == 6

\* the recorded commands
ExpandTemplates ==
    { Words(<<"$(CXX)", "-c", "x.cpp">>), Words(<<"$(CC)", "$(DEFINES)">>),
      Words(<<"gcc", "-c">>), Words(<<"$(CC)">>), Words(<<"$(CXX)", "$(CC)">>) }

\* the variable environments: plain values, values that refer to another
\* variable, to the variable itself, and to a variable that refers back
ExpandEnvironments ==
    { [ v \in {"$(CC)", "$(CXX)", "$(DEFINES)"} |->
          CASE v = "$(CC)" -> cc [] v = "$(CXX)" -> cxx [] v = "$(DEFINES)" -> defines ] :
      cc \in { Words(<<"gcc">>), Words(<<"$(CC)">>), Words(<<"$(CC)", "-m32">>),
               Words(<<"$(CXX)">>) },
      cxx \in { Words(<<"g++">>), Words(<<"$(CC)", "-x", "c++">>), Words(<<"$(CC)">>),
                <<>> },
      defines \in { Words(<<"-DA=1">>), <<>> } }

\* cmd is kept in walked, variables in universe
InitExpand ==
    /\ pc = "expand"
    /\ run = 1
    /\ universe \in ExpandEnvironments
    /\ walked \in ExpandTemplates
    /\ pos = 0
    /\ dbfile = Readable(<<>>)
    /\ env = PlainEnv
    /\ commands_db = EmptyMap
    /\ backend_files = EmptyMap
    /\ manifest_entries = EmptyMap
    /\ missing_commands = EmptyMap
    /\ todo = <<>>
    /\ dq = 1
    /\ disk = EmptyMap
    /\ changed = {}

ExpandFrame ==
    UNCHANGED <<run, universe, dbfile, env, commands_db, backend_files,
                manifest_entries, missing_commands, todo, dq, disk, changed>>

\* a pass that changes the command: "cmd = c", and the loop goes on
ExpandPass ==
    /\ pc = "expand"
    /\ LET c == expand_once(walked, universe)
       IN /\ c # walked
          /\ Len(c) <= MaxWords
          /\ walked' = c
    /\ pc' = pc
    /\ pos' = pos
    /\ ExpandFrame

\* a pass that changes nothing: "if c == cmd: break"
ExpandBreak ==
    /\ pc = "expand"
    /\ expand_once(walked, universe) = walked
    /\ pc' = "expanded"
    /\ walked' = walked
    /\ pos' = pos
    /\ ExpandFrame

\* a pass that makes the command longer than the model follows it: the loop
\* goes on all the same; the model keeps the command it has and, in pos, the
\* parity of the passes made since
ExpandOutgrown ==
    /\ pc = "expand"
    /\ LET c == expand_once(walked, universe)
       IN c # walked /\ Len(c) > MaxWords
    /\ pc' = pc
    /\ walked' = walked
    /\ pos' = 1 - pos
    /\ ExpandFrame

NextExpand ==
    \/ ExpandPass
    \/ ExpandBreak
    \/ ExpandOutgrown

\* the loop is run: a pass that can be made is made
SpecExpand == InitExpand /\ [][NextExpand]_vars /\ WF_vars(NextExpand)

-----------------------------------------------------------------------------
(* C28: the expansion reaches a fixed point *)

\* the variables the value of a variable refers to
RefersTo(variables, v) ==
    { w.stem : w \in { x \in Range(variables[v]) : IsReference(x) } } \cap DOMAIN variables

\* some variable refers to itself, directly or through other variables
SelfReferring(variables) ==
    \E v \in DOMAIN variables :
        v \in ReachableIn({ <<a, b>> \in (DOMAIN variables) \X (DOMAIN variables) :
                              b \in RefersTo(variables, a) },
                          RefersTo(variables, v), Cardinality(DOMAIN variables))

\* C28: for every recorded command and every variable environment, also one
\* where a variable refers to itself or to a variable that refers back to it,
\* the expansion loop comes to a pass that changes nothing and ends
C28_ExpansionTerminates == <>(pc = "expanded")

\* what does hold: the loop ends when no variable refers to itself, directly
\* or through others
C28_AcyclicExpansionTerminates ==
    ~SelfReferring(universe) => <>(pc = "expanded")

====
